---- MODULE Spec2Model ----
(***************************************************************************)
(* Model of the two MapReduce front ends of the repository:                *)
(*   findsp.c  - process backend (fork/waitpid, POSIX shared memory)       *)
(*   findst.c  - thread backend (pthread_create/pthread_join, heap array)  *)
(* Files are modelled by their contents.  The files a stage formats and    *)
(* the next stage parses with a bounded buffer (output-k, the shared       *)
(* memory region, OUT1, OUT2) are sequences of character codes; the files  *)
(* whose lines always fit the reader's buffer (INFILE, split-i,            *)
(* intermediate-i-k) are sequences of parsed records.                      *)
(***************************************************************************)
EXTENDS Integers, Sequences, FiniteSets, TLC

(***************************************************************************)
(* Program constants                                                       *)
(***************************************************************************)
INT_MAX == 2147483647
\* UINT32_MAX, the dedup sentinel: the bit pattern 0xFFFFFFFF, which no
\* value parsed from a non-negative int has; written here as the int it is
UINT32_MAX == 0 - 1
MAX_MAPPERS == 20
MAX_REDUCERS == 10
current_line_size == 256
temp_line_size == 256
SHMSIZE_MAX == 40
results_capacity_per_reducer == 50000

(***************************************************************************)
(* Bounds of the model                                                     *)
(***************************************************************************)
MaxLen == 2
MaxM == 2
MaxR == 2

(***************************************************************************)
(* Character codes                                                         *)
(***************************************************************************)
NUL == 0
NL == 10
SP == 32
MINUS == 45
ZERO == 48
COLON == 58

IsDigit(c) == c >= ZERO /\ c <= ZERO + 9
IsSpace(c) == c = SP \/ c = NL

RECURSIVE FormatU(_)
\* printf("%u") / printf("%d") / printf("%ld") / printf("%zu") of n >= 0
FormatU(n) == IF n < 10 THEN <<ZERO + n>>
              ELSE FormatU(n \div 10) \o <<ZERO + (n % 10)>>

\* printf("%d") / printf("%ld")
FormatD(n) == IF n < 0 THEN <<MINUS>> \o FormatU(0 - n) ELSE FormatU(n)

RECURSIVE SkipSpace(_, _)
SkipSpace(t, p) == IF p <= Len(t) /\ IsSpace(t[p]) THEN SkipSpace(t, p + 1) ELSE p

RECURSIVE ScanDigits(_, _, _)
\* the digits of a %d / %u conversion starting at p, accumulated into acc;
\* a value that does not fit an int saturates at INT_MAX
ScanDigits(t, p, acc) ==
    IF p <= Len(t) /\ IsDigit(t[p])
    THEN LET dgt == t[p] - ZERO
             nxt == IF acc > (INT_MAX - dgt) \div 10 THEN INT_MAX ELSE acc * 10 + dgt
         IN ScanDigits(t, p + 1, nxt)
    ELSE [val |-> acc, next |-> p]

\* one %d / %u conversion of sscanf at position p of text t
ScanInt(t, p) ==
    LET q == SkipSpace(t, p)
        neg == q <= Len(t) /\ t[q] = MINUS
        s == IF neg THEN q + 1 ELSE q
    IN IF s <= Len(t) /\ IsDigit(t[s])
       THEN LET r == ScanDigits(t, s, 0)
            IN [ok |-> TRUE, val |-> IF neg THEN 0 - r.val ELSE r.val, next |-> r.next]
       ELSE [ok |-> FALSE, val |-> 0, next |-> q]

RECURSIVE Flatten(_)
Flatten(ss) == IF ss = <<>> THEN <<>> ELSE Head(ss) \o Flatten(Tail(ss))

\* index of the first NL at or after p, or Len(t)+1
FindNL(t, p) ==
    IF p > Len(t) THEN p
    ELSE LET nl == { q \in p..Len(t) : t[q] = NL }
         IN IF nl = {} THEN Len(t) + 1
            ELSE CHOOSE q \in nl : \A x \in nl : q <= x

(***************************************************************************)
(* size_t / uint64_t arithmetic: a value is four 16-bit limbs, least       *)
(* significant first.                                                      *)
(***************************************************************************)
RECURSIVE Pow2(_)
Pow2(e) == IF e = 0 THEN 1 ELSE 2 * Pow2(e - 1)

LIMB == Pow2(16)

U64(n) == <<n % LIMB, (n \div LIMB) % LIMB, 0, 0>>

U64Add(a, b) ==
    LET s1 == a[1] + b[1]
        s2 == a[2] + b[2] + (s1 \div LIMB)
        s3 == a[3] + b[3] + (s2 \div LIMB)
        s4 == a[4] + b[4] + (s3 \div LIMB)
    IN <<s1 % LIMB, s2 % LIMB, s3 % LIMB, s4 % LIMB>>

U64Sub(a, b) ==
    LET d1 == a[1] - b[1]
        d2 == a[2] - b[2] - (IF d1 < 0 THEN 1 ELSE 0)
        d3 == a[3] - b[3] - (IF d2 < 0 THEN 1 ELSE 0)
        d4 == a[4] - b[4] - (IF d3 < 0 THEN 1 ELSE 0)
    IN <<d1 % LIMB, d2 % LIMB, d3 % LIMB, d4 % LIMB>>

\* a * k for a small k
U64Mul(a, k) ==
    LET p1 == a[1] * k
        p2 == a[2] * k + (p1 \div LIMB)
        p3 == a[3] * k + (p2 \div LIMB)
        p4 == a[4] * k + (p3 \div LIMB)
    IN <<p1 % LIMB, p2 % LIMB, p3 % LIMB, p4 % LIMB>>

\* a / k for a small k > 0
U64Div(a, k) ==
    LET q4 == a[4] \div k
        r4 == a[4] % k
        q3 == (r4 * LIMB + a[3]) \div k
        r3 == (r4 * LIMB + a[3]) % k
        q2 == (r3 * LIMB + a[2]) \div k
        r2 == (r3 * LIMB + a[2]) % k
        q1 == (r2 * LIMB + a[1]) \div k
    IN <<q1, q2, q3, q4>>

U64Less(a, b) ==
    \/ a[4] < b[4]
    \/ a[4] = b[4] /\ a[3] < b[3]
    \/ a[4] = b[4] /\ a[3] = b[3] /\ a[2] < b[2]
    \/ a[4] = b[4] /\ a[3] = b[3] /\ a[2] = b[2] /\ a[1] < b[1]

U64Leq(a, b) == a = b \/ U64Less(a, b)

\* the value fits a positive int of the model
U64Small(a) == a[4] = 0 /\ a[3] = 0 /\ a[2] < LIMB \div 2
U64Nat(a) == a[2] * LIMB + a[1]

\* 1ULL << e
U64Shl1(e) ==
    LET bit(k) == IF k = e \div 16 THEN Pow2(e % 16) ELSE 0
    IN <<bit(0), bit(1), bit(2), bit(3)>>

(***************************************************************************)
(* Files and input records                                                 *)
(***************************************************************************)
NoFile == [exists |-> FALSE, data |-> <<>>]
EmptyFile == [exists |-> TRUE, data |-> <<>>]
File(d) == [exists |-> TRUE, data |-> d]
Append1(f, x) == [exists |-> TRUE, data |-> Append(f.data, x)]

\* an input line: two integers "s d" (ok), or text sscanf/fscanf cannot
\* convert (~ok)
Edge(s, d) == [ok |-> TRUE, s |-> s, d |-> d]
Malformed == [ok |-> FALSE, s |-> 0, d |-> 0]

\* the % operator of C (truncation towards zero), b > 0
CRem(a, b) == IF a >= 0 THEN a % b ELSE 0 - ((0 - a) % b)

(***************************************************************************)
(* State                                                                   *)
(***************************************************************************)
VARIABLES
    prog,       \* "findsp" or "findst": which main() runs
    infile,     \* contents of INFILE
    M, R, MIND, MAXD, SHMSIZE,   \* argv
    pc,         \* position of main()
    exit_status,\* "running", then "success" (0), "failure" or "signal" (non-zero)
    loop_i,     \* the loop index i of the fork / wait / create / join loops
    failed_children,  \* findsp: the counter of wait_for_children
    split,      \* split-i files
    inter,      \* intermediate-i-k files
    output,     \* output-k files
    OUT1, OUT2, \* the two final files
    mappers,    \* the M map units
    reducers,   \* the R reduce units
    child_pids, \* findsp: the global child_pids array ("NULL" or "set")
    shm_ptr,    \* findsp: "NULL" or "mapped"
    shm_size,   \* findsp: size of the mapped object
    r_field,    \* findsp: the uint32_t R at the head of the region
    offsets,    \* findsp: the uint64_t offsets[R+1] of the header
    shm_mem,    \* findsp: the bytes stored behind the header (address -> byte)
    readers,    \* findsp: the FileReader array of merge_output_files
    active_readers,  \* findsp: the counter of merge_output_files
    all_reducer_results,     \* findst: the results array, slice by slice
    actual_results_counts,   \* findst: entries written per reducer
    prev        \* results of the previous run when two runs are compared

params == <<prog, infile, M, R, MIND, MAXD, SHMSIZE>>
files == <<split, inter, output, OUT1, OUT2>>
shm == <<shm_ptr, shm_size, r_field, offsets, shm_mem>>
merger == <<readers, active_readers>>
heap == <<all_reducer_results, actual_results_counts>>
vars == <<prog, infile, M, R, MIND, MAXD, SHMSIZE, pc, exit_status, loop_i,
          failed_children,
          split, inter, output, OUT1, OUT2, mappers, reducers, child_pids,
          shm_ptr, shm_size, r_field, offsets, shm_mem, readers, active_readers,
          all_reducer_results, actual_results_counts, prev>>

\* unit and file numbering: findsp counts from 0, findst from 1
Base == IF prog = "findsp" THEN 0 ELSE 1
MapIds == Base .. (Base + M - 1)
RedIds == Base .. (Base + R - 1)

Unborn == [st |-> "unborn", pos |-> 0, code |-> "none", waited |-> 0,
           pairs |-> <<>>, written |-> 0]

(***************************************************************************)
(* Inputs                                                                  *)
(***************************************************************************)
LineSet == { Edge(1, 2), Edge(3, 2), Edge(1, 3), Edge(2, INT_MAX),
             Malformed, Edge(1, 0 - 1) }

RECURSIVE SeqsUpTo(_, _)
SeqsUpTo(S, n) ==
    IF n = 0 THEN { <<>> }
    ELSE LET shorter == SeqsUpTo(S, n - 1)
         IN shorter \cup { Append(q, x) : q \in { t \in shorter : Len(t) = n - 1 }, x \in S }

\* the example of the specification
ExampleInput == << Edge(1, 2), Edge(3, 2), Edge(5, 4), Edge(1, 4), Edge(2, 2) >>

Inputs == SeqsUpTo(LineSet, MaxLen) \cup { ExampleInput }
FilterSet == { <<0 - 1, 0 - 1>>, <<3, 0 - 1>>, <<0 - 1, 2>> }
ShmSizes == { 4, 5, 6 }

StartState ==
    /\ pc = "validate"
    /\ exit_status = "running"
    /\ loop_i = 0
    /\ failed_children = 0
    /\ split = [i \in MapIds |-> NoFile]
    /\ inter = [ik \in MapIds \X RedIds |-> NoFile]
    /\ output = [k \in RedIds |-> NoFile]
    /\ OUT1 = NoFile
    /\ OUT2 = NoFile
    /\ mappers = [i \in MapIds |-> Unborn]
    /\ reducers = [k \in RedIds |-> Unborn]
    /\ child_pids = "NULL"
    /\ shm_ptr = "NULL"
    /\ shm_size = U64(0)
    /\ r_field = 0
    /\ offsets = <<>>
    /\ shm_mem = [a \in {} |-> NUL]
    /\ readers = <<>>
    /\ active_readers = 0
    /\ all_reducer_results = <<>>
    /\ actual_results_counts = <<>>

NoPrev == [ran |-> FALSE, prog |-> "", M |-> 0, R |-> 0, exit_status |-> "",
           OUT1 |-> NoFile, OUT2 |-> NoFile, units_ok |-> FALSE]

Init ==
    /\ prog \in {"findsp", "findst"}
    /\ infile \in Inputs
    /\ M \in 1..MaxM
    /\ R \in 1..MaxR
    /\ \E f \in FilterSet : MIND = f[1] /\ MAXD = f[2]
    /\ SHMSIZE \in IF prog = "findsp" THEN ShmSizes ELSE { 0 }
    /\ prev = NoPrev
    /\ StartState

Exit(status) ==
    /\ pc' = "exit"
    /\ exit_status' = status

(***************************************************************************)
(* findsp: main, steps 1 and 2                                             *)
(***************************************************************************)
\* validate_arguments: returns 0 for every argument vector
validate_arguments(m, r, shmsize) == 0

sp_validate ==
    /\ prog = "findsp" /\ pc = "validate"
    /\ IF validate_arguments(M, R, SHMSIZE) # 0
       THEN Exit("failure")
       ELSE pc' = "split" /\ UNCHANGED exit_status
    /\ UNCHANGED <<params, loop_i, failed_children, files, mappers, reducers,
                   child_pids, shm, merger, heap, prev>>

\* the destination filter of split_input_file: TRUE when the line is kept
sp_filter(dest, mind, maxd) ==
    IF mind # 0 - 1 \/ maxd # 0 - 1
    THEN LET min_filter == IF mind # 0 - 1 THEN mind ELSE dest
             max_filter == IF maxd # 0 - 1 THEN maxd ELSE dest
         IN ~ (dest < min_filter \/ dest > max_filter)
    ELSE TRUE

\* a read loop that lets lines with a negative number through
RECURSIVE split_loop_keep_negative(_, _, _, _, _, _)
split_loop_keep_negative(lines, line_num, fs, m, mind, maxd) ==
    IF lines = <<>> THEN fs
    ELSE LET l == Head(lines)
             rest == Tail(lines)
         IN IF ~ l.ok THEN split_loop_keep_negative(rest, line_num, fs, m, mind, maxd)
            ELSE IF ~ sp_filter(l.d, mind, maxd)
                 THEN split_loop_keep_negative(rest, line_num + 1, fs, m, mind, maxd)
            ELSE LET split_index == line_num % m
                 IN split_loop_keep_negative(rest, line_num + 1,
                               [fs EXCEPT ![split_index] = Append1(@, <<l.s, l.d>>)],
                               m, mind, maxd)

\* a read loop that does not advance line_num after writing a line
RECURSIVE split_loop_stuck(_, _, _, _, _, _)
split_loop_stuck(lines, line_num, fs, m, mind, maxd) ==
    IF lines = <<>> THEN fs
    ELSE LET l == Head(lines)
             rest == Tail(lines)
         IN IF ~ l.ok THEN split_loop_stuck(rest, line_num, fs, m, mind, maxd)
            ELSE IF l.s < 0 \/ l.d < 0 THEN split_loop_stuck(rest, line_num, fs, m, mind, maxd)
            ELSE IF ~ sp_filter(l.d, mind, maxd)
                 THEN split_loop_stuck(rest, line_num + 1, fs, m, mind, maxd)
            ELSE LET split_index == line_num % m
                 IN split_loop_stuck(rest, line_num,
                                     [fs EXCEPT ![split_index] = Append1(@, <<l.s, l.d>>)],
                                     m, mind, maxd)

\* the read loop of split_input_file: fs are the split files, line_num the counter
RECURSIVE split_loop(_, _, _, _, _, _)
split_loop(lines, line_num, fs, m, mind, maxd) ==
    IF lines = <<>> THEN fs
    ELSE LET l == Head(lines)
             rest == Tail(lines)
         IN IF ~ l.ok THEN split_loop(rest, line_num, fs, m, mind, maxd)
            ELSE IF l.s < 0 \/ l.d < 0 THEN split_loop(rest, line_num, fs, m, mind, maxd)
            ELSE IF ~ sp_filter(l.d, mind, maxd)
                 THEN split_loop(rest, line_num + 1, fs, m, mind, maxd)
            ELSE LET split_index == line_num % m
                 IN split_loop(rest, line_num + 1,
                               [fs EXCEPT ![split_index] = Append1(@, <<l.s, l.d>>)],
                               m, mind, maxd)

split_input_file(lines, m, mind, maxd) ==
    split_loop(lines, 0, [i \in 0..(m - 1) |-> EmptyFile], m, mind, maxd)

\* a line of the input gets as far as split_index = line_num % M
reaches_split_index(lines, mind, maxd) ==
    \E n \in 1..Len(lines) :
        /\ lines[n].ok /\ lines[n].s >= 0 /\ lines[n].d >= 0
        /\ sp_filter(lines[n].d, mind, maxd)

\* step 2; fopen of INFILE or of a split file may fail.  With M = 0 (calloc
\* of zero elements returns a pointer) no split file is opened and the
\* first line that gets to line_num % M divides by zero.
sp_split ==
    /\ prog = "findsp" /\ pc = "split"
    /\ \/ /\ M > 0
          /\ split' = split_input_file(infile, M, MIND, MAXD)
          /\ pc' = "fork_mappers"
          /\ UNCHANGED exit_status
       \/ /\ M = 0
          /\ IF reaches_split_index(infile, MIND, MAXD)
             THEN Exit("signal")
             ELSE pc' = "fork_mappers" /\ UNCHANGED exit_status
          /\ UNCHANGED split
       \/ /\ Exit("failure")
          /\ UNCHANGED split
    /\ UNCHANGED <<params, loop_i, failed_children, inter, output, OUT1, OUT2,
                   mappers, reducers, child_pids, shm, merger, heap, prev>>

(***************************************************************************)
(* findsp: cleanup, fork_mappers / fork_reducers, wait_for_children        *)
(***************************************************************************)
\* cleanup(M, R): unmaps and unlinks the region, removes the temporary files
cleanup ==
    /\ shm_ptr' = "NULL"
    /\ split' = [i \in DOMAIN split |-> NoFile]
    /\ inter' = [ik \in DOMAIN inter |-> NoFile]
    /\ output' = [k \in DOMAIN output |-> NoFile]
    /\ UNCHANGED <<OUT1, OUT2, shm_size, r_field, offsets, shm_mem>>

\* one iteration of the fork loop of fork_mappers / fork_reducers over the
\* units u (primed: up), n of them; first is the state a child starts in.
\* fork() either succeeds, or fails twice (the retry included).
fork_loop(here, next, failed, u, up, n, first) ==
    /\ pc = here
    /\ IF loop_i < n
       THEN \/ /\ up = [u EXCEPT ![loop_i] = [@ EXCEPT !.st = first]]
               /\ loop_i' = loop_i + 1
               /\ child_pids' = "set"
               /\ UNCHANGED pc
            \/ /\ pc' = failed
               /\ loop_i' = 0
               /\ child_pids' = "set"
               /\ up = u
       ELSE /\ pc' = next
            /\ loop_i' = 0
            /\ child_pids' = "set"
            /\ up = u
    /\ UNCHANGED <<exit_status, failed_children>>

\* a failed fork that returns -1 at once, without the waitpid loop
fork_failed_nowait(here, u, up, n) ==
    /\ pc = here
    /\ child_pids' = "NULL"
    /\ up = u
    /\ cleanup
    /\ Exit("failure")
    /\ UNCHANGED <<loop_i, failed_children>>

\* the clean-up loop after a failed fork: waitpid for every child forked so
\* far, then return -1 (main calls cleanup and exits)
fork_failed(here, u, up, n) ==
    /\ pc = here
    /\ IF loop_i < n /\ u[loop_i].st # "unborn"
       THEN /\ u[loop_i].st = "zombie"
            /\ up = [u EXCEPT ![loop_i] = [@ EXCEPT !.st = "reaped", !.waited = @ + 1]]
            /\ loop_i' = loop_i + 1
            /\ UNCHANGED <<pc, exit_status, child_pids, files, shm>>
       ELSE /\ child_pids' = "NULL"
            /\ up = u
            /\ cleanup
            /\ Exit("failure")
            /\ UNCHANGED loop_i
    /\ UNCHANGED failed_children

\* a wait loop that does not block: waitpid(..., WNOHANG) would take the
\* step whether or not child i has terminated
wait_for_children_nohang(here, next, u, up, n) ==
    /\ pc = here
    /\ IF child_pids = "NULL"
       THEN /\ up = u /\ cleanup /\ Exit("failure")
            /\ UNCHANGED <<loop_i, failed_children, child_pids>>
       ELSE IF loop_i < n
       THEN /\ up = u
            /\ loop_i' = loop_i + 1
            /\ UNCHANGED <<pc, exit_status, child_pids, files, shm, failed_children>>
       ELSE /\ child_pids' = "NULL"
            /\ up = u
            /\ loop_i' = 0
            /\ failed_children' = 0
            /\ pc' = next /\ UNCHANGED <<exit_status, files, shm>>

\* wait_for_children(n): waitpid for child i of the stage, in index order;
\* after the loop free child_pids and return -1 if any child failed
wait_for_children(here, next, u, up, n) ==
    /\ pc = here
    /\ IF child_pids = "NULL"
       THEN /\ up = u /\ cleanup /\ Exit("failure")
            /\ UNCHANGED <<loop_i, failed_children, child_pids>>
       ELSE IF loop_i < n
       THEN /\ u[loop_i].st = "zombie"
            /\ up = [u EXCEPT ![loop_i] = [@ EXCEPT !.st = "reaped", !.waited = @ + 1]]
            /\ failed_children' = failed_children + (IF u[loop_i].code # "exit0" THEN 1 ELSE 0)
            /\ loop_i' = loop_i + 1
            /\ UNCHANGED <<pc, exit_status, child_pids, files, shm>>
       ELSE /\ child_pids' = "NULL"
            /\ up = u
            /\ loop_i' = 0
            /\ failed_children' = 0
            /\ IF failed_children > 0
               THEN cleanup /\ Exit("failure")
               ELSE pc' = next /\ UNCHANGED <<exit_status, files, shm>>

sp_fork_mappers ==
    /\ prog = "findsp"
    /\ fork_loop("fork_mappers", "wait_mappers", "fork_mappers_failed",
                 mappers, mappers', M, "open")
    /\ UNCHANGED <<params, files, reducers, shm, merger, heap, prev>>

sp_fork_mappers_failed ==
    /\ prog = "findsp"
    /\ fork_failed("fork_mappers_failed", mappers, mappers', M)
    /\ UNCHANGED <<params, reducers, merger, heap, prev>>

sp_wait_mappers ==
    /\ prog = "findsp"
    /\ wait_for_children("wait_mappers", "create_shm", mappers, mappers', M)
    /\ UNCHANGED <<params, reducers, merger, heap, prev>>

(***************************************************************************)
(* findsp: mapper_process                                                  *)
(***************************************************************************)
\* how a child process ends: exit(0), exit(EXIT_FAILURE), killed by a signal
ExitOk == "exit0"
ExitFailure == "exit1"
Signaled == "signal"

Zombie(unit, code) == [unit EXCEPT !.st = "zombie", !.code = code]

\* open split-<id> and create the R intermediate files; a failed fopen or
\* calloc exits with EXIT_FAILURE, a signal may kill the child
sp_mapper_open(i) ==
    /\ prog = "findsp"
    /\ mappers[i].st = "open"
    /\ \/ /\ split[i].exists
          /\ mappers' = [mappers EXCEPT ![i] = [@ EXCEPT !.st = "loop"]]
          /\ inter' = [ik \in DOMAIN inter |->
                          IF ik[1] = i THEN EmptyFile ELSE inter[ik]]
       \/ /\ \E code \in {ExitFailure, Signaled} :
                mappers' = [mappers EXCEPT ![i] = Zombie(@, code)]
          /\ UNCHANGED inter
    /\ UNCHANGED <<params, pc, exit_status, loop_i, failed_children, split, output,
                   OUT1, OUT2, reducers, child_pids, shm, merger, heap, prev>>

\* one iteration of the read loop: a line of split-<id> is "source dest";
\* the reversed pair goes to intermediate-<id>-(dest % R); with R = 0 the
\* remainder is a division by zero, which kills the child
sp_mapper_line(i) ==
    /\ prog = "findsp"
    /\ mappers[i].st = "loop"
    /\ mappers[i].pos < Len(split[i].data)
    /\ LET l == split[i].data[mappers[i].pos + 1]
           source == l[1]
           dest == l[2]
           reducer_idx == CRem(dest, R)
       IN IF R > 0
          THEN /\ inter' = [inter EXCEPT ![<<i, reducer_idx>>] =
                               Append1(@, <<dest, source>>)]
               /\ mappers' = [mappers EXCEPT ![i] = [@ EXCEPT !.pos = @ + 1]]
          ELSE \* dest % R with R = 0
               /\ mappers' = [mappers EXCEPT ![i] = Zombie(@, Signaled)]
               /\ UNCHANGED inter
    /\ UNCHANGED <<params, pc, exit_status, loop_i, failed_children, split, output,
                   OUT1, OUT2, reducers, child_pids, shm, merger, heap, prev>>

\* end of file: close everything, return, exit(EXIT_SUCCESS)
sp_mapper_exit(i) ==
    /\ prog = "findsp"
    /\ mappers[i].st = "loop"
    /\ mappers[i].pos = Len(split[i].data)
    /\ mappers' = [mappers EXCEPT ![i] = Zombie(@, ExitOk)]
    /\ UNCHANGED <<params, pc, exit_status, loop_i, failed_children, files,
                   reducers, child_pids, shm, merger, heap, prev>>

(***************************************************************************)
(* findsp: create_shared_memory, initialize_shm_layout                     *)
(***************************************************************************)
\* sizeof(uint32_t) + (R + 1) * sizeof(uint64_t)
header_size(r) == 4 + (r + 1) * 8

\* the offsets[0..R] written by initialize_shm_layout (as a sequence, entry
\* i of the C array at index i + 1); all arithmetic is size_t arithmetic
initialize_shm_layout(r, total_size) ==
    LET header == U64(header_size(r))
        data_size == U64Sub(total_size, header)
        region_size == U64Div(data_size, r)
    IN [i \in 1..(r + 1) |-> U64Add(header, U64Mul(region_size, i - 1))]

\* step 5.  shm_open / ftruncate / mmap may fail; SHMSIZE outside [0, 40] is
\* rejected.  When the header does not fit the object, the header stores
\* run past its end: the stores land or the process is killed.  With R = 0
\* initialize_shm_layout divides data_size by zero.
sp_create_shm ==
    /\ prog = "findsp" /\ pc = "create_shm"
    /\ \/ /\ SHMSIZE >= 0 /\ SHMSIZE <= SHMSIZE_MAX
          /\ R = 0
          /\ shm_ptr' = "mapped"
          /\ shm_size' = U64Shl1(SHMSIZE)
          /\ shm_mem' = [a \in {} |-> NUL]
          /\ Exit("signal")
          /\ UNCHANGED <<r_field, offsets, split, inter, output, OUT1, OUT2>>
       \/ /\ SHMSIZE >= 0 /\ SHMSIZE <= SHMSIZE_MAX
          /\ R > 0
          /\ shm_ptr' = "mapped"
          /\ shm_size' = U64Shl1(SHMSIZE)
          /\ shm_mem' = [a \in {} |-> NUL]
          /\ r_field' = R
          /\ offsets' = initialize_shm_layout(R, U64Shl1(SHMSIZE))
          /\ \/ pc' = "fork_reducers" /\ UNCHANGED exit_status
             \/ /\ U64Less(U64Shl1(SHMSIZE), U64(header_size(R)))
                /\ Exit("signal")
          /\ UNCHANGED <<split, inter, output, OUT1, OUT2>>
       \/ /\ cleanup
          /\ Exit("failure")
    /\ UNCHANGED <<params, loop_i, failed_children, mappers, reducers, child_pids,
                   merger, heap, prev>>

sp_fork_reducers ==
    /\ prog = "findsp"
    /\ fork_loop("fork_reducers", "wait_reducers", "fork_reducers_failed",
                 reducers, reducers', R, "read")
    /\ UNCHANGED <<params, files, mappers, shm, merger, heap, prev>>

sp_fork_reducers_failed ==
    /\ prog = "findsp"
    /\ fork_failed("fork_reducers_failed", reducers, reducers', R)
    /\ UNCHANGED <<params, mappers, merger, heap, prev>>

sp_wait_reducers ==
    /\ prog = "findsp"
    /\ wait_for_children("wait_reducers", "merge", reducers, reducers', R)
    /\ UNCHANGED <<params, mappers, merger, heap, prev>>

(***************************************************************************)
(* findsp: reducer_process                                                 *)
(***************************************************************************)
\* compare_pairs(a, b) < 0 ; a pair is <<dest, source>>
compare_pairs(a, b) == a[1] < b[1] \/ (a[1] = b[1] /\ a[2] < b[2])

\* compare_destcount(a, b) < 0 ; an entry is <<dest, count>>
compare_destcount(a, b) == a[1] < b[1]

\* findst: compare_dest_src, compare_dest_count, compare_long
compare_dest_src(a, b) == a[1] < b[1] \/ (a[1] = b[1] /\ a[2] < b[2])
compare_dest_count(a, b) == a[1] < b[1]
compare_long(a, b) == a < b

\* the comparator named cmp says a goes before b
Before(cmp, a, b) ==
    CASE cmp = "compare_pairs" -> compare_pairs(a, b)
      [] cmp = "compare_destcount" -> compare_destcount(a, b)
      [] cmp = "compare_dest_src" -> compare_dest_src(a, b)
      [] cmp = "compare_dest_count" -> compare_dest_count(a, b)
      [] cmp = "compare_long" -> compare_long(a, b)

RECURSIVE insert_sorted(_, _, _)
insert_sorted(sorted, x, cmp) ==
    IF sorted = <<>> THEN <<x>>
    ELSE IF Before(cmp, x, Head(sorted)) THEN <<x>> \o sorted
    ELSE <<Head(sorted)>> \o insert_sorted(Tail(sorted), x, cmp)

\* qsort(base, n, size, cmp): the elements in ascending order of cmp
RECURSIVE qsort(_, _)
qsort(a, cmp) ==
    IF a = <<>> THEN <<>>
    ELSE insert_sorted(qsort(Tail(a), cmp), Head(a), cmp)

\* a read phase that stops after the first intermediate file
read_spools_first(from, to, k) ==
    IF from > to THEN <<>> ELSE inter[<<from, k>>].data

\* step 1 of reducer_process: the pairs of intermediate-i-<k>, i = from .. to,
\* in file order; a missing file is skipped
RECURSIVE read_spools(_, _, _)
read_spools(from, to, k) ==
    IF from > to THEN <<>>
    ELSE inter[<<from, k>>].data \o read_spools(from + 1, to, k)

\* steps 1-3: read, sort, create output-<k>
sp_reducer_read(k) ==
    /\ prog = "findsp"
    /\ reducers[k].st = "read"
    /\ \/ /\ reducers' = [reducers EXCEPT ![k] =
                 [@ EXCEPT !.st = "group",
                           !.pairs = qsort(read_spools(0, M - 1, k), "compare_pairs")]]
          /\ output' = [output EXCEPT ![k] = EmptyFile]
       \/ /\ \E code \in {ExitFailure, Signaled} :
                reducers' = [reducers EXCEPT ![k] = Zombie(@, code)]
          /\ UNCHANGED output
    /\ UNCHANGED <<params, pc, exit_status, loop_i, failed_children, split, inter,
                   OUT1, OUT2, mappers, child_pids, shm, merger, heap, prev>>

\* an inner while without the test against the preceding source
RECURSIVE collect_sources_keep(_, _, _, _, _)
collect_sources_keep(pairs, idx, current_dest, prev_source, sources) ==
    IF idx <= Len(pairs) /\ pairs[idx][1] = current_dest
    THEN collect_sources_keep(pairs, idx + 1, current_dest, pairs[idx][2],
                              Append(sources, pairs[idx][2]))
    ELSE [sources |-> sources, idx |-> idx]

\* the inner while of group_and_write_output: from index idx (1-based) on,
\* the sources of current_dest that differ from the preceding one
RECURSIVE collect_sources(_, _, _, _, _)
collect_sources(pairs, idx, current_dest, prev_source, sources) ==
    IF idx <= Len(pairs) /\ pairs[idx][1] = current_dest
    THEN LET src == pairs[idx][2]
         IN IF src # prev_source
            THEN collect_sources(pairs, idx + 1, current_dest, src, Append(sources, src))
            ELSE collect_sources(pairs, idx + 1, current_dest, prev_source, sources)
    ELSE [sources |-> sources, idx |-> idx]

\* "dest: s1 s2 ... sn\n"
RECURSIVE sp_source_list(_)
sp_source_list(sources) ==
    IF sources = <<>> THEN <<>>
    ELSE <<SP>> \o FormatU(Head(sources)) \o sp_source_list(Tail(sources))

sp_adj_line(dest, sources) ==
    FormatU(dest) \o <<COLON>> \o sp_source_list(sources) \o <<NL>>

\* a reducer that takes the end of its slice for its start
my_offset_end(k) == offsets[k + 2]

\* a reducer that takes the start of the region for the start of its slice
my_offset_region(k) == U64(0)

\* step 4 of reducer_process: my_offset and my_size of reducer k
my_offset(k) == offsets[k + 1]
my_size(k) == U64Sub(offsets[k + 2], offsets[k + 1])

\* write_to_shared_memory: the line "dest count\n", whether the bounds check
\* lets it be stored, and the address range [lo, hi) of the memcpy
write_to_shared_memory(k, dest, count, written_bytes, max_size) ==
    LET shm_line == FormatU(dest) \o <<SP>> \o FormatU(count) \o <<NL>>
        line_len == Len(shm_line)
        lo == U64Add(my_offset(k), U64(written_bytes))
    IN [stored |-> U64Leq(U64Add(U64(written_bytes), U64(line_len)), max_size),
        line |-> shm_line,
        lo |-> lo,
        hi |-> U64Add(lo, U64(line_len))]

\* the store lies within the mapped object
InObject(lo, hi) == U64Leq(lo, hi) /\ U64Leq(hi, shm_size)

\* memcpy(region + written, line, len) at a small address
Store(mem, lo, line) ==
    [a \in DOMAIN mem \cup (lo .. (lo + Len(line) - 1)) |->
        IF a >= lo /\ a < lo + Len(line) THEN line[a - lo + 1] ELSE mem[a]]

\* one iteration of the outer while of group_and_write_output: one
\* destination run, one line of output-<k>, one call of
\* write_to_shared_memory (its result is not looked at).  A store outside
\* the mapped object lands (when the address is near the object) or kills
\* the child.
sp_reducer_group(k) ==
    /\ prog = "findsp"
    /\ reducers[k].st = "group"
    /\ reducers[k].pos < Len(reducers[k].pairs)
    /\ LET u == reducers[k]
           current_dest == u.pairs[u.pos + 1][1]
           g == collect_sources(u.pairs, u.pos + 1, current_dest, UINT32_MAX, <<>>)
           w == write_to_shared_memory(k, current_dest, Len(g.sources),
                                       u.written, my_size(k))
       IN /\ output' = [output EXCEPT ![k] =
                           File(@.data \o sp_adj_line(current_dest, g.sources))]
          /\ \/ /\ ~ w.stored
                /\ reducers' = [reducers EXCEPT ![k] = [@ EXCEPT !.pos = g.idx - 1]]
                /\ UNCHANGED shm_mem
             \/ /\ w.stored
                /\ (InObject(w.lo, w.hi) \/ (U64Small(w.lo) /\ U64Small(w.hi)))
                /\ reducers' = [reducers EXCEPT ![k] =
                       [@ EXCEPT !.pos = g.idx - 1, !.written = @ + Len(w.line)]]
                /\ shm_mem' = Store(shm_mem, U64Nat(w.lo), w.line)
             \/ /\ w.stored
                /\ ~ InObject(w.lo, w.hi)
                /\ reducers' = [reducers EXCEPT ![k] = Zombie(@, Signaled)]
                /\ UNCHANGED shm_mem
    /\ UNCHANGED <<params, pc, exit_status, loop_i, failed_children, split, inter,
                   OUT1, OUT2, mappers, child_pids, shm_ptr, shm_size, r_field,
                   offsets, merger, heap, prev>>

\* all runs written: fclose, return, exit(EXIT_SUCCESS)
sp_reducer_exit(k) ==
    /\ prog = "findsp"
    /\ reducers[k].st = "group"
    /\ reducers[k].pos = Len(reducers[k].pairs)
    /\ reducers' = [reducers EXCEPT ![k] = Zombie(@, ExitOk)]
    /\ UNCHANGED <<params, pc, exit_status, loop_i, failed_children, files,
                   mappers, child_pids, shm, merger, heap, prev>>

(***************************************************************************)
(* findsp: merge_output_files                                              *)
(***************************************************************************)
Min2(a, b) == IF a < b THEN a ELSE b

\* fgets(buf, size, fp) on a file with text t of which pos characters are
\* consumed: at most size - 1 characters, up to and including a newline
fgets(t, pos, size) ==
    LET last == Min2(Min2(FindNL(t, pos + 1), pos + size - 1), Len(t))
    IN [null |-> pos >= Len(t), line |-> SubSeq(t, pos + 1, last), pos |-> last]

\* sscanf(line, "%d:", &dest) == 1 ? dest : -1
parse_destination(line) ==
    LET r == ScanInt(line, 1) IN IF r.ok THEN r.val ELSE 0 - 1

NewReader == [pos |-> 0, current_line |-> <<>>, dest |-> 0 - 1, eof |-> FALSE]

\* a read that consumes nothing and reports a line
read_next_line_again(reader, t) == [reader |-> reader, ret |-> 1]

\* read_next_line on a reader of the file with text t: the reader afterwards
\* and the value returned (1 line read, 0 end of file, -1 parse error)
read_next_line(reader, t) ==
    IF reader.eof THEN [reader |-> reader, ret |-> 0]
    ELSE LET g == fgets(t, reader.pos, current_line_size)
         IN IF ~ g.null
            THEN LET dest == parse_destination(g.line)
                 IN [reader |-> [reader EXCEPT !.current_line = g.line,
                                               !.pos = g.pos, !.dest = dest],
                     ret |-> IF dest < 0 THEN 0 - 1 ELSE 1]
            ELSE [reader |-> [reader EXCEPT !.eof = TRUE], ret |-> 0]

\* the open loop: reader i after fopen of output-i and the first read
open_reader(i) ==
    IF output[i].exists
    THEN read_next_line(NewReader, output[i].data)
    ELSE [reader |-> [NewReader EXCEPT !.eof = TRUE], ret |-> 0]

\* step 8, up to the merge loop; fopen of an output file (other than
\* ENOENT) or of OUT1 may fail
sp_merge_open ==
    /\ prog = "findsp" /\ pc = "merge"
    /\ \/ /\ readers' = [i \in 0..(R - 1) |-> open_reader(i).reader]
          /\ active_readers' = Cardinality({i \in 0..(R - 1) : open_reader(i).ret > 0})
          /\ OUT1' = EmptyFile
          /\ pc' = "merge_loop"
          /\ UNCHANGED <<exit_status, split, inter, output, OUT2, shm>>
       \/ /\ cleanup
          /\ Exit("failure")
          /\ UNCHANGED merger
    /\ UNCHANGED <<params, loop_i, failed_children, mappers, reducers, child_pids,
                   heap, prev>>

\* the search for the reader with the smallest destination
RECURSIVE find_min(_, _, _, _, _)
find_min(rs, i, n, min_idx, min_dest) ==
    IF i >= n THEN min_idx
    ELSE IF ~ rs[i].eof /\ rs[i].dest < min_dest
         THEN find_min(rs, i + 1, n, i, rs[i].dest)
         ELSE find_min(rs, i + 1, n, min_idx, min_dest)

\* one evaluation of the while condition and one iteration of the merge loop
sp_merge_loop ==
    /\ prog = "findsp" /\ pc = "merge_loop"
    /\ LET min_idx == find_min(readers, 0, R, 0 - 1, INT_MAX)
       IN IF active_readers > 0 /\ min_idx >= 0
          THEN LET nx == read_next_line(readers[min_idx], output[min_idx].data)
               IN /\ OUT1' = File(OUT1.data \o readers[min_idx].current_line)
                  /\ readers' = [readers EXCEPT ![min_idx] = nx.reader]
                  /\ active_readers' = IF nx.ret <= 0 THEN active_readers - 1
                                       ELSE active_readers
                  /\ UNCHANGED pc
          ELSE /\ pc' = "process_shm"
               /\ UNCHANGED <<OUT1, merger>>
    /\ UNCHANGED <<params, exit_status, loop_i, failed_children, split, inter, output,
                   OUT2, mappers, reducers, child_pids, shm, heap, prev>>

(***************************************************************************)
(* findsp: process_shared_memory                                           *)
(***************************************************************************)
Byte(a) == IF a \in DOMAIN shm_mem THEN shm_mem[a] ELSE NUL

\* a scan that stops at a zero byte only
RECURSIVE data_len_unbounded(_, _, _)
data_len_unbounded(start, j, region_size) ==
    IF Byte(start + j) # NUL
    THEN data_len_unbounded(start, j + 1, region_size)
    ELSE j

\* the scan "for (j = 0; j < region_size && region[j] != '\0'; j++)"
RECURSIVE data_len(_, _, _)
data_len(start, j, region_size) ==
    IF U64Less(U64(j), region_size) /\ Byte(start + j) # NUL
    THEN data_len(start, j + 1, region_size)
    ELSE j

\* the lines of a region's text from line_start on, as <<dest, count>> entries
RECURSIVE parse_region(_, _)
parse_region(t, line_start) ==
    IF line_start > Len(t) THEN <<>>
    ELSE LET line_end == FindNL(t, line_start)
             line_len == IF line_end - line_start >= temp_line_size
                         THEN temp_line_size - 1 ELSE line_end - line_start
             temp_line == SubSeq(t, line_start, line_start + line_len - 1)
             a == ScanInt(temp_line, 1)
             b == ScanInt(temp_line, a.next)
             rest == parse_region(t, line_end + 1)
         IN IF line_end > line_start /\ a.ok /\ b.ok
            THEN << <<a.val, b.val>> >> \o rest
            ELSE rest

region_start(i) == offsets[i + 1]
region_size(i) == U64Sub(offsets[i + 2], offsets[i + 1])

\* region i cannot be read at all: it is not empty and lies far outside the object
WildRegion(i) == region_size(i) # U64(0) /\ ~ U64Small(region_start(i))

region_len(i) ==
    IF region_size(i) = U64(0) THEN 0
    ELSE data_len(U64Nat(region_start(i)), 0, region_size(i))

\* the text found in region i
region_text(i) ==
    [n \in 1..region_len(i) |-> Byte(U64Nat(region_start(i)) + n - 1)]

\* the scan of region i reads a byte past the end of the mapped object
ReadsPastObject(i) ==
    /\ region_size(i) # U64(0)
    /\ LET reads == IF U64Less(U64(region_len(i)), region_size(i))
                    THEN region_len(i) + 1 ELSE region_len(i)
       IN ~ U64Leq(U64Add(region_start(i), U64(reads)), shm_size)

\* the entries of regions from .. to, in region order
RECURSIVE read_regions(_, _)
read_regions(from, to) ==
    IF from > to THEN <<>>
    ELSE parse_region(region_text(from), 1) \o read_regions(from + 1, to)

\* "dest count\n" for every entry
RECURSIVE count_lines(_)
count_lines(entries) ==
    IF entries = <<>> THEN <<>>
    ELSE FormatU(Head(entries)[1]) \o <<SP>> \o FormatU(Head(entries)[2]) \o <<NL>>
         \o count_lines(Tail(entries))

\* step 9 and step 10: parse the regions, sort, write OUT2, cleanup, return.
\* Reading a region that lies outside the mapped object kills the process
\* (far outside) or may kill it (just past the end); fopen of OUT2 may fail.
sp_process_shm ==
    /\ prog = "findsp" /\ pc = "process_shm"
    /\ \/ /\ shm_ptr # "NULL"
          /\ \A i \in 0..(r_field - 1) : ~ WildRegion(i)
          /\ OUT2' = File(count_lines(qsort(read_regions(0, r_field - 1),
                                            "compare_destcount")))
          /\ shm_ptr' = "NULL"
          /\ split' = [i \in DOMAIN split |-> NoFile]
          /\ inter' = [ik \in DOMAIN inter |-> NoFile]
          /\ output' = [k \in DOMAIN output |-> NoFile]
          /\ Exit("success")
       \/ /\ shm_ptr # "NULL"
          /\ \E i \in 0..(r_field - 1) :
                WildRegion(i) \/ (U64Small(region_start(i)) /\ ReadsPastObject(i))
          /\ Exit("signal")
          /\ UNCHANGED <<split, inter, output, OUT2, shm_ptr>>
       \/ /\ cleanup
          /\ Exit("failure")
    /\ UNCHANGED <<params, loop_i, failed_children, OUT1, mappers, reducers,
                   child_pids, shm_size, r_field, offsets, shm_mem, merger, heap, prev>>

sp_Next ==
    \/ sp_validate
    \/ sp_split
    \/ sp_fork_mappers
    \/ sp_fork_mappers_failed
    \/ sp_wait_mappers
    \/ \E i \in MapIds : sp_mapper_open(i) \/ sp_mapper_line(i) \/ sp_mapper_exit(i)
    \/ sp_create_shm
    \/ sp_fork_reducers
    \/ sp_fork_reducers_failed
    \/ sp_wait_reducers
    \/ \E k \in RedIds : sp_reducer_read(k) \/ sp_reducer_group(k) \/ sp_reducer_exit(k)
    \/ sp_merge_open
    \/ sp_merge_loop
    \/ sp_process_shm

(***************************************************************************)
(* findst: main                                                            *)
(***************************************************************************)
\* the argument checks at the head of main: TRUE when main goes on
st_arguments_ok(m, r, mind, maxd) ==
    /\ ~ (m <= 0 \/ m > MAX_MAPPERS)
    /\ ~ (r <= 0 \/ r > MAX_REDUCERS)
    /\ ~ (mind # 0 - 1 /\ mind <= 0)
    /\ ~ (maxd # 0 - 1 /\ maxd <= 0)
    /\ ~ (mind # 0 - 1 /\ maxd # 0 - 1 /\ mind > maxd)

st_validate ==
    /\ prog = "findst" /\ pc = "validate"
    /\ IF st_arguments_ok(M, R, MIND, MAXD)
       THEN pc' = "split" /\ UNCHANGED exit_status
       ELSE Exit("failure")
    /\ UNCHANGED <<params, loop_i, failed_children, files, mappers, reducers,
                   child_pids, shm, merger, heap, prev>>

\* the getline loop of step 1: every line, as it is, to the next split file
RECURSIVE st_split_loop(_, _, _, _)
st_split_loop(lines, current_split_file_index, fs, m) ==
    IF lines = <<>> THEN fs
    ELSE st_split_loop(Tail(lines), (current_split_file_index + 1) % m,
                       [fs EXCEPT ![current_split_file_index + 1] = Append1(@, Head(lines))],
                       m)

\* step 1; fopen of INFILE or of a split file may fail
st_split ==
    /\ prog = "findst" /\ pc = "split"
    /\ \/ /\ split' = st_split_loop(infile, 0, [i \in 1..M |-> EmptyFile], M)
          /\ pc' = "create_mappers"
          /\ UNCHANGED exit_status
       \/ /\ Exit("failure")
          /\ UNCHANGED split
    /\ UNCHANGED <<params, loop_i, failed_children, inter, output, OUT1, OUT2,
                   mappers, reducers, child_pids, shm, merger, heap, prev>>

\* one iteration of a pthread_create loop over the units u (primed: up), n of
\* them: thread loop_i + 1 starts in state first, or pthread_create fails and
\* main calls exit(EXIT_FAILURE)
create_loop(here, next, u, up, n, first) ==
    /\ pc = here
    /\ IF loop_i < n
       THEN \/ /\ up = [u EXCEPT ![loop_i + 1] = [@ EXCEPT !.st = first]]
               /\ loop_i' = loop_i + 1
               /\ UNCHANGED <<pc, exit_status>>
            \/ /\ Exit("failure")
               /\ up = u
               /\ UNCHANGED loop_i
       ELSE /\ pc' = next
            /\ loop_i' = 0
            /\ up = u
            /\ UNCHANGED exit_status

\* one iteration of a pthread_join loop: blocks until thread loop_i + 1 has
\* terminated; the thread's way of ending is not looked at
join_loop(here, next, u, up, n) ==
    /\ pc = here
    /\ IF loop_i < n
       THEN /\ u[loop_i + 1].st = "done"
            /\ up = [u EXCEPT ![loop_i + 1] = [@ EXCEPT !.st = "joined", !.waited = @ + 1]]
            /\ loop_i' = loop_i + 1
            /\ UNCHANGED pc
       ELSE /\ pc' = next
            /\ loop_i' = 0
            /\ up = u
    /\ UNCHANGED exit_status

st_create_mappers ==
    /\ prog = "findst"
    /\ create_loop("create_mappers", "join_mappers", mappers, mappers', M, "open")
    /\ UNCHANGED <<params, failed_children, files, reducers, child_pids, shm,
                   merger, heap, prev>>

st_join_mappers ==
    /\ prog = "findst"
    /\ join_loop("join_mappers", "alloc_results", mappers, mappers', M)
    /\ UNCHANGED <<params, failed_children, files, reducers, child_pids, shm,
                   merger, heap, prev>>

\* step 3, allocation of the results area (malloc may fail) and its memset
st_alloc_results ==
    /\ prog = "findst" /\ pc = "alloc_results"
    /\ \/ /\ all_reducer_results' = [a \in {} |-> <<0, 0>>]
          /\ actual_results_counts' = [i \in 0..(R - 1) |-> 0]
          /\ pc' = "create_reducers"
          /\ UNCHANGED exit_status
       \/ /\ Exit("failure")
          /\ UNCHANGED heap
    /\ UNCHANGED <<params, loop_i, failed_children, files, mappers, reducers,
                   child_pids, shm, merger, prev>>

st_create_reducers ==
    /\ prog = "findst"
    /\ create_loop("create_reducers", "join_reducers", reducers, reducers', R, "read")
    /\ UNCHANGED <<params, failed_children, files, mappers, child_pids, shm,
                   merger, heap, prev>>

st_join_reducers ==
    /\ prog = "findst"
    /\ join_loop("join_reducers", "finalize", reducers, reducers', R)
    /\ UNCHANGED <<params, failed_children, files, mappers, child_pids, shm,
                   merger, heap, prev>>

\* entry idx of the results array (zero where nothing was stored)
Result(idx) == IF idx \in DOMAIN all_reducer_results
               THEN all_reducer_results[idx] ELSE <<0, 0>>

\* the memcpy loop of step 4: the first actual_results_counts[i] entries of
\* every slice, slices from .. to
RECURSIVE consolidate(_, _)
consolidate(from, to) ==
    IF from > to THEN <<>>
    ELSE [n \in 1..actual_results_counts[from] |->
             Result(from * results_capacity_per_reducer + n - 1)]
         \o consolidate(from + 1, to)

\* "%ld %d\n" for every entry
RECURSIVE st_count_lines(_)
st_count_lines(entries) ==
    IF entries = <<>> THEN <<>>
    ELSE FormatD(Head(entries)[1]) \o <<SP>> \o FormatD(Head(entries)[2]) \o <<NL>>
         \o st_count_lines(Tail(entries))

\* step 4: nothing is merged into OUT1 (the merge is two printf calls); the
\* results are consolidated, sorted and written to OUT2.  malloc of
\* final_pairs or fopen of OUT2 may fail.
st_finalize ==
    /\ prog = "findst" /\ pc = "finalize"
    /\ \/ /\ OUT2' = File(st_count_lines(qsort(consolidate(0, R - 1), "compare_dest_count")))
          /\ Exit("success")
       \/ /\ Exit("failure")
          /\ UNCHANGED OUT2
    /\ UNCHANGED <<params, loop_i, failed_children, split, inter, output, OUT1,
                   mappers, reducers, child_pids, shm, merger, heap, prev>>

(***************************************************************************)
(* findst: run_mapper_thread                                               *)
(***************************************************************************)
\* how a thread ended: at the pthread_exit at the end of its function, or at
\* one of the pthread_exit calls of its error paths
Done(unit, code) == [unit EXCEPT !.st = "done", !.code = code]

\* fopen of split-<id> and of the R intermediate files
st_mapper_open(i) ==
    /\ prog = "findst" /\ pc # "exit"
    /\ mappers[i].st = "open"
    /\ \/ /\ split[i].exists
          /\ mappers' = [mappers EXCEPT ![i] = [@ EXCEPT !.st = "loop"]]
          /\ inter' = [ik \in DOMAIN inter |->
                          IF ik[1] = i THEN EmptyFile ELSE inter[ik]]
       \/ /\ mappers' = [mappers EXCEPT ![i] = Done(@, "early")]
          /\ UNCHANGED inter
    /\ UNCHANGED <<params, pc, exit_status, loop_i, failed_children, split, output,
                   OUT1, OUT2, reducers, child_pids, shm, merger, heap, prev>>

\* the destination filter of run_mapper_thread: TRUE when the pair is kept
st_filter(d, mind, maxd) ==
    ~ ((mind # 0 - 1 /\ d < mind) \/ (maxd # 0 - 1 /\ d > maxd))

\* one fscanf of the read loop.  Text that is no number ends the loop.  A
\* pair that passes the filter goes to intermediate_files[(d % R) + 1]; an
\* index below 1 names no open file and fprintf kills the process.
st_mapper_line(i) ==
    /\ prog = "findst" /\ pc # "exit"
    /\ mappers[i].st = "loop"
    /\ mappers[i].pos < Len(split[i].data)
    /\ LET l == split[i].data[mappers[i].pos + 1]
           reducer_index == CRem(l.d, R) + 1
       IN IF ~ l.ok
          THEN /\ mappers' = [mappers EXCEPT ![i] = [@ EXCEPT !.pos = Len(split[i].data)]]
               /\ UNCHANGED <<inter, pc, exit_status>>
          ELSE IF ~ st_filter(l.d, MIND, MAXD)
          THEN /\ mappers' = [mappers EXCEPT ![i] = [@ EXCEPT !.pos = @ + 1]]
               /\ UNCHANGED <<inter, pc, exit_status>>
          ELSE IF reducer_index < 1
          THEN /\ Exit("signal")
               /\ UNCHANGED <<inter, mappers>>
          ELSE /\ inter' = [inter EXCEPT ![<<i, reducer_index>>] = Append1(@, <<l.d, l.s>>)]
               /\ mappers' = [mappers EXCEPT ![i] = [@ EXCEPT !.pos = @ + 1]]
               /\ UNCHANGED <<pc, exit_status>>
    /\ UNCHANGED <<params, loop_i, failed_children, split, output,
                   OUT1, OUT2, reducers, child_pids, shm, merger, heap, prev>>

\* the loop has ended: fclose everything, pthread_exit(NULL)
st_mapper_exit(i) ==
    /\ prog = "findst" /\ pc # "exit"
    /\ mappers[i].st = "loop"
    /\ mappers[i].pos = Len(split[i].data)
    /\ mappers' = [mappers EXCEPT ![i] = Done(@, "exit0")]
    /\ UNCHANGED <<params, pc, exit_status, loop_i, failed_children, files,
                   reducers, child_pids, shm, merger, heap, prev>>

(***************************************************************************)
(* findst: run_reducer_thread                                              *)
(***************************************************************************)
\* zero the count, malloc, read intermediate-i-<id> for i = 1..M (a missing
\* file is skipped), qsort, fopen output-<id>; malloc or fopen may fail
st_reducer_read(k) ==
    /\ prog = "findst" /\ pc # "exit"
    /\ reducers[k].st = "read"
    /\ actual_results_counts' = [actual_results_counts EXCEPT ![k - 1] = 0]
    /\ \/ /\ reducers' = [reducers EXCEPT ![k] =
                 [@ EXCEPT !.st = "group",
                           !.pairs = qsort(read_spools(1, M, k), "compare_dest_src")]]
          /\ output' = [output EXCEPT ![k] = EmptyFile]
       \/ /\ reducers' = [reducers EXCEPT ![k] = Done(@, "early")]
          /\ UNCHANGED output
    /\ UNCHANGED <<params, pc, exit_status, loop_i, failed_children, split, inter,
                   OUT1, OUT2, mappers, child_pids, shm, merger,
                   all_reducer_results, prev>>

\* the sources of the destination run starting at idx: a source is added
\* when it differs from the one added last
RECURSIVE st_collect(_, _, _, _)
st_collect(pairs, idx, current_dest, current_sources) ==
    IF idx <= Len(pairs) /\ pairs[idx][1] = current_dest
    THEN IF current_sources = <<>> \/ pairs[idx][2] # current_sources[Len(current_sources)]
         THEN st_collect(pairs, idx + 1, current_dest, Append(current_sources, pairs[idx][2]))
         ELSE st_collect(pairs, idx + 1, current_dest, current_sources)
    ELSE [sources |-> current_sources, idx |-> idx]

\* "%ld:" then "%ld " for every source, then "\n"
RECURSIVE st_source_list(_)
st_source_list(sources) ==
    IF sources = <<>> THEN <<>>
    ELSE FormatD(Head(sources)) \o <<SP>> \o st_source_list(Tail(sources))

st_adj_line(dest, sources) ==
    FormatD(dest) \o <<COLON>> \o st_source_list(sources) \o <<NL>>

\* one destination run: its line in output-<id> and its entry in the results
\* slice; when the slice is full only a warning is printed.  Before the
\* first run current_sources is allocated; if that fails the thread calls
\* exit(EXIT_FAILURE).
st_reducer_group(k) ==
    /\ prog = "findst" /\ pc # "exit"
    /\ reducers[k].st = "group"
    /\ reducers[k].pos < Len(reducers[k].pairs)
    /\ \/ LET u == reducers[k]
              current_dest == u.pairs[u.pos + 1][1]
              g == st_collect(u.pairs, u.pos + 1, current_dest, <<>>)
              sources == qsort(g.sources, "compare_long")
              unique_source_count == Len(sources)
              written == actual_results_counts[k - 1]
              slot == (k - 1) * results_capacity_per_reducer + written
          IN /\ output' = [output EXCEPT ![k] =
                              File(@.data \o st_adj_line(current_dest, sources))]
             /\ reducers' = [reducers EXCEPT ![k] = [@ EXCEPT !.pos = g.idx - 1]]
             /\ IF written < results_capacity_per_reducer
                THEN /\ all_reducer_results' =
                          [a \in DOMAIN all_reducer_results \cup {slot} |->
                              IF a = slot THEN <<current_dest, unique_source_count>>
                              ELSE all_reducer_results[a]]
                     /\ actual_results_counts' =
                          [actual_results_counts EXCEPT ![k - 1] = @ + 1]
                ELSE UNCHANGED heap
             /\ UNCHANGED <<pc, exit_status>>
       \/ /\ reducers[k].pos = 0
          /\ Exit("failure")
          /\ UNCHANGED <<output, reducers, heap>>
    /\ UNCHANGED <<params, loop_i, failed_children, split, inter,
                   OUT1, OUT2, mappers, child_pids, shm, merger, prev>>

\* all runs written: fclose, free, pthread_exit(NULL)
st_reducer_exit(k) ==
    /\ prog = "findst" /\ pc # "exit"
    /\ reducers[k].st = "group"
    /\ reducers[k].pos = Len(reducers[k].pairs)
    /\ reducers' = [reducers EXCEPT ![k] = Done(@, "exit0")]
    /\ UNCHANGED <<params, pc, exit_status, loop_i, failed_children, files,
                   mappers, child_pids, shm, merger, heap, prev>>

st_Next ==
    \/ st_validate
    \/ st_split
    \/ st_create_mappers
    \/ st_join_mappers
    \/ \E i \in MapIds : st_mapper_open(i) \/ st_mapper_line(i) \/ st_mapper_exit(i)
    \/ st_alloc_results
    \/ st_create_reducers
    \/ st_join_reducers
    \/ \E k \in RedIds : st_reducer_read(k) \/ st_reducer_group(k) \/ st_reducer_exit(k)
    \/ st_finalize

Next == sp_Next \/ st_Next

Spec == Init /\ [][Next]_vars

(***************************************************************************)
(* Fair scheduling: the kernel gives every process and every thread that   *)
(* can run a turn, so a step of main, of a map unit or of a reduce unit    *)
(* that stays enabled is taken                                             *)
(***************************************************************************)
UnitIds == 0..MaxM

MapStep(i) ==
    /\ i \in MapIds
    /\ \/ sp_mapper_open(i) \/ sp_mapper_line(i) \/ sp_mapper_exit(i)
       \/ st_mapper_open(i) \/ st_mapper_line(i) \/ st_mapper_exit(i)

ReduceStep(k) ==
    /\ k \in RedIds
    /\ \/ sp_reducer_read(k) \/ sp_reducer_group(k) \/ sp_reducer_exit(k)
       \/ st_reducer_read(k) \/ st_reducer_group(k) \/ st_reducer_exit(k)

\* main gives up at step 5, 8 or 9 of findsp: this failure exit is a case of
\* sp_create_shm, of sp_merge_open and of sp_process_shm
MainGivesUp ==
    /\ prog = "findsp" /\ pc \in {"create_shm", "merge", "process_shm"}
    /\ cleanup
    /\ Exit("failure")
    /\ UNCHANGED <<params, loop_i, failed_children, mappers, reducers, child_pids,
                   merger, heap, prev>>

MainStep ==
    \/ MainGivesUp
    \/ sp_validate \/ sp_split \/ sp_fork_mappers \/ sp_fork_mappers_failed
    \/ sp_wait_mappers \/ sp_create_shm \/ sp_fork_reducers
    \/ sp_fork_reducers_failed \/ sp_wait_reducers \/ sp_merge_open
    \/ sp_merge_loop \/ sp_process_shm
    \/ st_validate \/ st_split \/ st_create_mappers \/ st_join_mappers
    \/ st_alloc_results \/ st_create_reducers \/ st_join_reducers \/ st_finalize

Fairness ==
    /\ WF_vars(MainStep)
    /\ \A i \in UnitIds : WF_vars(MapStep(i)) /\ WF_vars(ReduceStep(i))

\* the runs checked under fairness: the most units, no filter, a buffer that
\* is too small for its header and one that is large enough, and inputs that
\* give no partition, each partition or one partition work, and one with a
\* malformed line and a negative dest
FairInputs ==
    { <<>>, << Edge(1, 2), Edge(1, 3) >>, << Edge(3, 2), Edge(1, 2) >>,
      << Malformed, Edge(1, 0 - 1) >> }

InitFair ==
    /\ prog \in {"findsp", "findst"}
    /\ infile \in FairInputs
    /\ M = MaxM
    /\ R = MaxR
    /\ MIND = 0 - 1 /\ MAXD = 0 - 1
    /\ SHMSIZE \in IF prog = "findsp" THEN { 4, 6 } ELSE { 0 }
    /\ prev = NoPrev
    /\ StartState

SpecFair == InitFair /\ [][Next]_vars /\ Fairness

(***************************************************************************)
(* The life of a unit                                                      *)
(***************************************************************************)
Started(unit) == unit.st # "unborn"
Terminated(unit) == unit.st \in {"zombie", "reaped", "done", "joined"}
Abnormal(unit) == Terminated(unit) /\ unit.code # "exit0"

\* every unit of the run has terminated, and normally
AllUnitsOk ==
    /\ \A i \in MapIds : Terminated(mappers[i]) /\ mappers[i].code = "exit0"
    /\ \A k \in RedIds : Terminated(reducers[k]) /\ reducers[k].code = "exit0"

(***************************************************************************)
(* Two runs on the same input, to compare their final outputs: a findsp    *)
(* run that succeeded is followed by a findsp run with another (M, R), or  *)
(* by a findst run with the same (M, R).                                   *)
(***************************************************************************)
MaxLenPair == 1

PairInputs == SeqsUpTo(LineSet, MaxLenPair) \cup { ExampleInput }

InitPair ==
    /\ prog = "findsp"
    /\ infile \in PairInputs
    /\ M \in 1..MaxM
    /\ R \in 1..MaxR
    /\ \E f \in FilterSet : MIND = f[1] /\ MAXD = f[2]
    /\ SHMSIZE \in ShmSizes
    /\ prev = NoPrev
    /\ StartState

\* after a run that succeeded: remember its results and start program
\* prog2 with m2, r2 on the input lines2
Rerun(prog2, m2, r2, lines2) ==
    /\ pc = "exit" /\ exit_status = "success" /\ ~ prev.ran
    /\ prev' = [ran |-> TRUE, prog |-> prog, M |-> M, R |-> R,
                exit_status |-> exit_status, OUT1 |-> OUT1, OUT2 |-> OUT2,
                units_ok |-> AllUnitsOk]
    /\ prog' = prog2 /\ M' = m2 /\ R' = r2
    /\ infile' = lines2
    /\ UNCHANGED <<MIND, MAXD, SHMSIZE>>
    /\ pc' = "validate"
    /\ exit_status' = "running"
    /\ loop_i' = 0
    /\ failed_children' = 0
    /\ LET base == IF prog2 = "findsp" THEN 0 ELSE 1
           mids == base .. (base + m2 - 1)
           rids == base .. (base + r2 - 1)
       IN /\ split' = [i \in mids |-> NoFile]
          /\ inter' = [ik \in mids \X rids |-> NoFile]
          /\ output' = [k \in rids |-> NoFile]
          /\ mappers' = [i \in mids |-> Unborn]
          /\ reducers' = [k \in rids |-> Unborn]
    /\ OUT1' = NoFile
    /\ OUT2' = NoFile
    /\ child_pids' = "NULL"
    /\ shm_ptr' = "NULL"
    /\ shm_size' = U64(0)
    /\ r_field' = 0
    /\ offsets' = <<>>
    /\ shm_mem' = [a \in {} |-> NUL]
    /\ readers' = <<>>
    /\ active_readers' = 0
    /\ all_reducer_results' = <<>>
    /\ actual_results_counts' = <<>>

SecondRun(prog2, m2, r2) == Rerun(prog2, m2, r2, infile)

OtherSharding ==
    \E m2 \in 1..MaxM, r2 \in 1..MaxR :
        /\ <<m2, r2>> # <<M, R>>
        /\ SecondRun("findsp", m2, r2)

OtherBackend == SecondRun("findst", M, R)

NextPair == Next \/ OtherSharding \/ OtherBackend

SpecPair == InitPair /\ [][NextPair]_vars

(***************************************************************************)
(* A run, and then the same run on the input with one of its edges         *)
(* appended once more                                                      *)
(***************************************************************************)
MaxLenDup == 3

DupLineSet == { Edge(1, 2), Edge(3, 2), Malformed }

InitDup ==
    /\ prog \in {"findsp", "findst"}
    /\ infile \in SeqsUpTo(DupLineSet, MaxLenDup)
    /\ M \in 1..MaxM
    /\ R \in 1..MaxR
    /\ \E f \in FilterSet : MIND = f[1] /\ MAXD = f[2]
    /\ SHMSIZE \in IF prog = "findsp" THEN ShmSizes ELSE { 0 }
    /\ prev = NoPrev
    /\ StartState

AppendCopy ==
    \E j \in 1..Len(infile) :
        /\ infile[j].ok /\ infile[j].s >= 0 /\ infile[j].d >= 0
        /\ Rerun(prog, M, R, Append(infile, infile[j]))

NextDup == Next \/ AppendCopy

SpecDup == InitDup /\ [][NextDup]_vars

(***************************************************************************)
(* Runs whose M or R may be zero                                           *)
(***************************************************************************)
InitArgs ==
    /\ prog \in {"findsp", "findst"}
    /\ infile \in PairInputs
    /\ M \in 0..MaxM
    /\ R \in 0..MaxR
    /\ \E f \in FilterSet : MIND = f[1] /\ MAXD = f[2]
    /\ SHMSIZE \in IF prog = "findsp" THEN ShmSizes ELSE { 0 }
    /\ prev = NoPrev
    /\ StartState

SpecArgs == InitArgs /\ [][Next]_vars

(***************************************************************************)
(* Runs on an input with a destination of many sources: the line that its  *)
(* reducer writes, "dest:" and " source" per source (src/findsp.c:871-876), *)
(* is longer than the current_line buffer of a FileReader                  *)
(***************************************************************************)
LongFanIn == 24

\* the k-th source of the heavy destination: ten digits, odd
BigSource(k) == 1000000000 + 2 * k - 1

LongInput ==
    [k \in 1..LongFanIn |-> Edge(BigSource(k), 2)]
        \o << Edge(1, 3), Edge(1, BigSource(LongFanIn)) >>

InitLong ==
    /\ prog \in {"findsp", "findst"}
    /\ infile \in PairInputs \cup { LongInput }
    /\ M \in 1..MaxM
    /\ R \in 1..MaxR
    /\ \E f \in FilterSet : MIND = f[1] /\ MAXD = f[2]
    /\ SHMSIZE \in IF prog = "findsp" THEN ShmSizes ELSE { 0 }
    /\ prev = NoPrev
    /\ StartState

SpecLong == InitLong /\ [][Next]_vars

(***************************************************************************)
(* Inputs whose count lines fill a slice to its last byte: three lines of  *)
(* 4 bytes in the one slice of 12 bytes (SHMSIZE 5, R 1), and lines of 5   *)
(* and 13 bytes in slice 0 of 18 bytes, with a line in slice 1 (SHMSIZE 6, *)
(* R 2)                                                                    *)
(***************************************************************************)
FillInputs ==
    { << Edge(1, 2), Edge(1, 3), Edge(1, 4) >>,
      << Edge(1, 1000000000), Edge(1, 10), Edge(1, 3) >> }

InitFill ==
    /\ prog \in {"findsp", "findst"}
    /\ infile \in PairInputs \cup FillInputs
    /\ M \in 1..MaxM
    /\ R \in 1..MaxR
    /\ \E f \in FilterSet : MIND = f[1] /\ MAXD = f[2]
    /\ SHMSIZE \in IF prog = "findsp" THEN ShmSizes ELSE { 0 }
    /\ prev = NoPrev
    /\ StartState

SpecFill == InitFill /\ [][Next]_vars

(***************************************************************************)
(* Inputs with the sources nearest to the dedup sentinel: a source that    *)
(* sscanf("%d") yields as -1 (the int with the bits of UINT32_MAX) and the *)
(* largest int                                                             *)
(***************************************************************************)
SentinelLineSet == { Edge(0 - 1, 2), Edge(INT_MAX, 2), Edge(1, 2), Edge(2, 3) }

InitSentinel ==
    /\ prog \in {"findsp", "findst"}
    /\ infile \in SeqsUpTo(SentinelLineSet, MaxLen)
    /\ M \in 1..MaxM
    /\ R \in 1..MaxR
    /\ \E f \in FilterSet : MIND = f[1] /\ MAXD = f[2]
    /\ SHMSIZE \in IF prog = "findsp" THEN ShmSizes ELSE { 0 }
    /\ prev = NoPrev
    /\ StartState

SpecSentinel == InitSentinel /\ [][Next]_vars

(***************************************************************************)
(* A run that succeeded, and then the same program once more with the same *)
(* input and parameters: the units of the two runs may interleave and      *)
(* finish in different orders                                              *)
(***************************************************************************)
SameAgain == SecondRun(prog, M, R)

NextTwice == Next \/ SameAgain

SpecTwice == Init /\ [][NextTwice]_vars

(***************************************************************************)
(* What the specification asks of the outputs                              *)
(***************************************************************************)
InputLines == { infile[n] : n \in 1..Len(infile) }

\* the edges of the input: well-formed records of non-negative vertex ids
ValidEdges == { <<l.s, l.d>> : l \in { x \in InputLines : x.ok /\ x.s >= 0 /\ x.d >= 0 } }

InRange(d) == (MIND = 0 - 1 \/ d >= MIND) /\ (MAXD = 0 - 1 \/ d <= MAXD)

ExpectedDests == { e[2] : e \in { x \in ValidEdges : InRange(x[2]) } }

SourcesOf(d) == { e[1] : e \in { x \in ValidEdges : x[2] = d } }

RECURSIVE Ascending(_)
Ascending(S) ==
    IF S = {} THEN <<>>
    ELSE LET m == CHOOSE x \in S : \A y \in S : x <= y
         IN <<m>> \o Ascending(S \ {m})

RECURSIVE ExpectedAdjLines(_)
ExpectedAdjLines(dests) ==
    IF dests = <<>> THEN <<>>
    ELSE sp_adj_line(Head(dests), Ascending(SourcesOf(Head(dests))))
         \o ExpectedAdjLines(Tail(dests))

RECURSIVE ExpectedCountLines(_)
ExpectedCountLines(dests) ==
    IF dests = <<>> THEN <<>>
    ELSE FormatU(Head(dests)) \o <<SP>> \o FormatU(Cardinality(SourcesOf(Head(dests))))
         \o <<NL>> \o ExpectedCountLines(Tail(dests))

ExpectedOUT1 == File(ExpectedAdjLines(Ascending(ExpectedDests)))
ExpectedOUT2 == File(ExpectedCountLines(Ascending(ExpectedDests)))

Succeeded == pc = "exit" /\ exit_status = "success"


MergerStarted ==
    \/ pc \in {"merge", "merge_loop", "process_shm", "finalize"}
    \/ OUT1.exists
    \/ OUT2.exists

\* the <<dest, count>> entries a reduce unit with these sorted pairs produces
RECURSIVE dest_counts(_, _)
dest_counts(pairs, idx) ==
    IF idx > Len(pairs) THEN <<>>
    ELSE LET g == collect_sources(pairs, idx, pairs[idx][1], UINT32_MAX, <<>>)
         IN << <<pairs[idx][1], Len(g.sources)>> >> \o dest_counts(pairs, g.idx)

\* the entries held by the slice of reduce unit k
SliceEntries(k) ==
    IF prog = "findsp"
    THEN IF offsets = <<>> THEN <<>> ELSE parse_region(region_text(k), 1)
    ELSE IF actual_results_counts = <<>> THEN <<>>
         ELSE [n \in 1..actual_results_counts[k - 1] |->
                  Result((k - 1) * results_capacity_per_reducer + n - 1)]

\* reduce unit k has gone through all its runs and an entry was not stored
Overflowed(k) ==
    /\ reducers[k].code \in {"none", "exit0"}
    /\ reducers[k].pairs # <<>>
    /\ reducers[k].pos = Len(reducers[k].pairs)
    /\ IF prog = "findsp"
       THEN reducers[k].written < Len(count_lines(dest_counts(reducers[k].pairs, 1)))
       ELSE actual_results_counts[k - 1] < Len(dest_counts(reducers[k].pairs, 1))

\* the destinations of the lines of an adjacency text, in file order
RECURSIVE line_dests(_, _)
line_dests(t, p) ==
    IF p > Len(t) THEN <<>>
    ELSE LET e == FindNL(t, p)
         IN <<parse_destination(SubSeq(t, p, e))>> \o line_dests(t, e + 1)

Occurrences(q, x) == Cardinality({ n \in 1..Len(q) : q[n] = x })

FirstOf(entries) == [n \in 1..Len(entries) |-> entries[n][1]]

SpoolDests ==
    UNION { { inter[ik].data[n][1] : n \in 1..Len(inter[ik].data) } : ik \in DOMAIN inter }

RECURSIVE AllOutputDests(_, _)
AllOutputDests(from, to) ==
    IF from > to THEN <<>>
    ELSE line_dests(output[from].data, 1) \o AllOutputDests(from + 1, to)

RECURSIVE AllSliceDests(_, _)
AllSliceDests(from, to) ==
    IF from > to THEN <<>>
    ELSE FirstOf(SliceEntries(from)) \o AllSliceDests(from + 1, to)


\* the reduce stage is over and every unit of the run ended normally
AfterReduce ==
    /\ AllUnitsOk
    /\ \/ prog = "findsp" /\ pc = "merge"
       \/ prog = "findst" /\ pc = "finalize"

(***************************************************************************)
(* Claims                                                                  *)
(***************************************************************************)

\* C1: when a findsp run succeeds, OUT1 holds one line per in-filter
\* destination, in strictly ascending destination order, each with exactly
\* the ascending duplicate-free sources of that destination.
C1_AdjacencyExact ==
    (prog = "findsp" /\ Succeeded) => OUT1 = ExpectedOUT1

\* C2: when a findsp run succeeds, OUT2 holds exactly one line (dest, number
\* of distinct sources) per in-filter destination, ascending, none missing.
C2_CountsExact ==
    (prog = "findsp" /\ Succeeded) => OUT2 = ExpectedOUT2

\* C3: two complete findsp runs on the same input, filter and buffer size
\* that differ only in (M, R) end with identical OUT1 and OUT2.
C3_ParallelismInvariance ==
    (prev.ran /\ prev.prog = "findsp" /\ prog = "findsp" /\ Succeeded)
        => (OUT1 = prev.OUT1 /\ OUT2 = prev.OUT2)

\* C4: once a map unit has terminated abnormally no reduce unit is started
\* and the merger is not run; once a reduce unit has terminated abnormally
\* the merger is not run and neither OUT1 nor OUT2 is written.
C4_FailedUnitStopsRun ==
    /\ (\E i \in MapIds : Abnormal(mappers[i]))
          => ((\A k \in RedIds : ~ Started(reducers[k])) /\ ~ MergerStarted)
    /\ (\E k \in RedIds : Abnormal(reducers[k])) => ~ MergerStarted

\* C5: the run ends with status zero exactly when every map and reduce unit
\* ended normally and the final files were written.
C5_ExitStatusExact ==
    pc = "exit" =>
        (exit_status = "success"
            <=> (AllUnitsOk /\ OUT2.exists /\ (prog = "findsp" => OUT1.exists)))

\* C6: a run in which a reduce unit had more entries than its slice holds
\* does not report success.
C6_OverflowIsFatal ==
    Succeeded => \A k \in RedIds : ~ Overflowed(k)

\* C7: a reduce unit exists, or the aggregation buffer holds data, only when
\* all map units have terminated; the merger runs, or a final file exists,
\* only when all reduce units have terminated.
C7_NoStageOverlap ==
    /\ (\/ \E k \in RedIds : Started(reducers[k])
        \/ DOMAIN shm_mem # {}
        \/ DOMAIN all_reducer_results # {})
          => \A i \in MapIds : Terminated(mappers[i])
    /\ MergerStarted => \A k \in RedIds : Terminated(reducers[k])

\* a reduce unit is in the middle of its runs, with a line already written
C7_Witness ==
    /\ \E k \in RedIds : reducers[k].st = "group" /\ reducers[k].pos > 0
    /\ \E k \in RedIds : reducers[k].st = "read"
    /\ \A i \in MapIds : Terminated(mappers[i])

\* C8: the slice boundaries do not change while reduce units exist, and
\* every byte (findsp) or entry (findst) of the buffer that a step changes
\* lies in the slice of the reduce unit that took the step.
C8_WritesStayInSlice ==
    [][ /\ (Len(offsets) = R + 1 /\ \E k \in RedIds : Started(reducers[k]))
            => offsets' = offsets
        /\ \A a \in DOMAIN shm_mem' :
              (a \notin DOMAIN shm_mem \/ shm_mem'[a] # shm_mem[a])
                 => \E k \in RedIds :
                       /\ reducers'[k] # reducers[k]
                       /\ U64Leq(offsets[k + 1], U64(a))
                       /\ U64Less(U64(a), offsets[k + 2])
        /\ \A a \in DOMAIN all_reducer_results' :
              (a \notin DOMAIN all_reducer_results
                  \/ all_reducer_results'[a] # all_reducer_results[a])
                 => \E k \in RedIds :
                       /\ reducers'[k] # reducers[k]
                       /\ a >= (k - 1) * results_capacity_per_reducer
                       /\ a < k * results_capacity_per_reducer
      ]_vars

\* C9: after a reduce stage in which every unit ended normally, every
\* destination of the intermediate files has a line in exactly one
\* per-reducer output file and an entry in exactly one buffer slice.
C9_SingleOwner ==
    AfterReduce =>
        \A d \in SpoolDests :
            /\ Occurrences(AllOutputDests(Base, Base + R - 1), d) = 1
            /\ Occurrences(AllSliceDests(Base, Base + R - 1), d) = 1

\* C10: a findst run on the input, M, R and filter of a complete findsp run
\* ends with the same OUT1 and the same OUT2.
C10_BackendEquivalence ==
    (prev.ran /\ prev.prog = "findsp" /\ prog = "findst" /\ Succeeded)
        => (OUT1 = prev.OUT1 /\ OUT2 = prev.OUT2)

\* a line of the input that is malformed or has a negative vertex id
Offending(l) == ~ l.ok \/ l.s < 0 \/ l.d < 0

HasOffending == \E n \in 1..Len(infile) : Offending(infile[n])

\* the map stage is over and every map unit ended normally
MapStageDone ==
    /\ \A i \in MapIds : Terminated(mappers[i]) /\ mappers[i].code = "exit0"
    /\ \/ prog = "findsp" /\ pc = "create_shm"
       \/ prog = "findst" /\ pc = "alloc_results"

\* the positions <<file, n>> of all pairs in the intermediate files
SpoolSlots ==
    UNION { { <<ik, n>> : n \in 1..Len(inter[ik].data) } : ik \in DOMAIN inter }

SpoolEntries == { inter[x[1]].data[x[2]] : x \in SpoolSlots }

SpoolCount(e) == Cardinality({ x \in SpoolSlots : inter[x[1]].data[x[2]] = e })

\* the valid in-filter records of the input, as <<dest, source>> pairs
ExpectedPairs ==
    { <<infile[n].d, infile[n].s>> :
        n \in { x \in 1..Len(infile) : ~ Offending(infile[x]) /\ InRange(infile[x].d) } }

InputCount(e) ==
    Cardinality({ n \in 1..Len(infile) :
                    /\ ~ Offending(infile[n])
                    /\ InRange(infile[n].d)
                    /\ <<infile[n].d, infile[n].s>> = e })

\* C11: when the input holds a malformed or negative record, the run is not
\* killed while mapping, and after the map stage the intermediate files hold
\* exactly the valid in-filter records of the input, each as often as the
\* input has it.
C11_BadRecordSkipped ==
    HasOffending =>
        /\ ~ (pc = "exit" /\ exit_status = "signal"
                /\ \E i \in MapIds : mappers[i].st = "loop")
        /\ MapStageDone =>
              \A e \in SpoolEntries \cup ExpectedPairs : SpoolCount(e) = InputCount(e)

ArgumentsInRange == M >= 1 /\ M <= MAX_MAPPERS /\ R >= 1 /\ R <= MAX_REDUCERS

\* C12: a run whose M or R is out of range never gets past the argument
\* check: it creates no split file, no intermediate file and no unit, and
\* it does not end with status zero.
C12_OutOfRangeRejected ==
    ~ ArgumentsInRange =>
        /\ pc \in {"validate", "exit"}
        /\ exit_status # "success"
        /\ \A i \in DOMAIN split : ~ split[i].exists
        /\ \A ik \in DOMAIN inter : ~ inter[ik].exists
        /\ \A i \in DOMAIN mappers : ~ Started(mappers[i])
        /\ \A k \in DOMAIN reducers : ~ Started(reducers[k])

\* C13: on an input of valid records, (a) with MIND = MAXD = -1 no record is
\* filtered out: after the map stage the intermediate files hold as many
\* pairs as the input has records; (b) when no destination of the input is
\* inside [MIND, MAXD], a run that succeeds leaves an empty OUT1 and an
\* empty OUT2.
C13_FilterBoundary ==
    ~ HasOffending =>
        /\ (MIND = 0 - 1 /\ MAXD = 0 - 1 /\ MapStageDone)
              => Cardinality(SpoolSlots) = Len(infile)
        /\ (Succeeded /\ ExpectedDests = {})
              => (OUT1 = EmptyFile /\ OUT2 = EmptyFile)

\* C14: a run on the input with one of its edges appended once more, with
\* the same program, M, R and filter, ends with the same OUT1 and OUT2
\* (both runs complete, every unit of both ended normally).
C14_DuplicateEdgeNoChange ==
    (/\ prev.ran /\ prev.prog = prog /\ prev.M = M /\ prev.R = R
     /\ prev.units_ok /\ AllUnitsOk /\ Succeeded)
        => (OUT1 = prev.OUT1 /\ OUT2 = prev.OUT2)

\* the records of lines whose 0-based index idx, idx + 1, ... is congruent
\* to i0 modulo m, in input order
RECURSIVE RoundRobin(_, _, _, _)
RoundRobin(lines, idx, i0, m) ==
    IF lines = <<>> THEN <<>>
    ELSE (IF idx % m = i0 THEN <<Head(lines)>> ELSE <<>>)
         \o RoundRobin(Tail(lines), idx + 1, i0, m)

\* the lines of split file i as input records
SegmentRecords(i) ==
    [n \in 1..Len(split[i].data) |->
        IF prog = "findsp" THEN Edge(split[i].data[n][1], split[i].data[n][2])
        ELSE split[i].data[n]]

\* C15: once the split files are written, split file i holds, in input
\* order, every record of the input whose 0-based index is congruent to i
\* modulo M (i counted from 0), whatever the filter and the records are.
C15_SplitRoundRobin ==
    \A i \in MapIds :
        split[i].exists => SegmentRecords(i) = RoundRobin(infile, 0, i - Base, M)

\* ceil(a / m) for m > 0, and 0 when a <= 0
CeilDiv(a, m) == IF a <= 0 THEN 0 ELSE (a + m - 1) \div m

RECURSIVE SegmentSizes(_, _)
SegmentSizes(from, to) ==
    IF from > to THEN 0 ELSE Len(split[from].data) + SegmentSizes(from + 1, to)

\* findsp has written its split files for an input of valid records, no filter
UnfilteredSplit ==
    /\ prog = "findsp"
    /\ MIND = 0 - 1 /\ MAXD = 0 - 1
    /\ ~ HasOffending
    /\ \A i \in MapIds : split[i].exists

\* C16: with no filter and an input of N valid records, split_input_file
\* writes ceil((N - i) / M) records to split file i, and N records in all.
C16_SegmentSizes ==
    UnfilteredSplit =>
        /\ \A i \in MapIds : Len(split[i].data) = CeilDiv(Len(infile) - i, M)
        /\ SegmentSizes(0, M - 1) = Len(infile)

\* the example input of five records split in two: three and two records
C16_Witness ==
    /\ UnfilteredSplit
    /\ M = MaxM
    /\ Len(infile) > M
    /\ Len(split[0].data) = Len(split[1].data) + 1
    /\ Len(split[1].data) > 1

\* C17: every pair in an intermediate file has a dest inside [MIND, MAXD]
\* (a bound of -1 is no bound), and once the map stage is over every valid
\* in-filter edge of the input is in the intermediate files exactly as often
\* as the input has it.
C17_FilterInvariant ==
    /\ \A e \in SpoolEntries : InRange(e[1])
    /\ MapStageDone => \A e \in ExpectedPairs : SpoolCount(e) = InputCount(e)

\* the streams of the merge that are not exhausted
LiveStreams == { i \in 0..(R - 1) : ~ readers[i].eof }

\* one iteration of the merge loop as specified: the record of a live stream
\* with the smallest current dest is emitted and only that stream advances
MergeStepAsSpecified ==
    \E i \in LiveStreams :
        /\ \A j \in LiveStreams : readers[i].dest <= readers[j].dest
        /\ OUT1' = File(OUT1.data \o readers[i].current_line)
        /\ readers'[i] # readers[i]
        /\ \A j \in 0..(R - 1) : j # i => readers'[j] = readers[j]
        /\ pc' = "merge_loop"

MergeStep ==
    (prog = "findsp" /\ pc = "merge_loop") =>
        IF LiveStreams # {} THEN MergeStepAsSpecified ELSE pc' = "process_shm"

\* C18: every iteration of the loop of merge_output_files emits the record of
\* the non-exhausted stream with the smallest current dest and advances only
\* that stream, and the loop is left only when every stream is exhausted.
C18_MergeStep == [][MergeStep]_vars

\* the lines of the text t from position p on, each with its newline
RECURSIVE TextLines(_, _)
TextLines(t, p) ==
    IF p > Len(t) THEN {}
    ELSE LET e == Min2(FindNL(t, p), Len(t))
         IN { SubSeq(t, p, e) } \cup TextLines(t, e + 1)

\* the records that the reducers wrote
ReducerRecords == UNION { TextLines(output[i].data, 1) : i \in 0..(R - 1) }

\* what reader i holds is one whole line of output-i
HoldsWholeRecord(i) ==
    LET r == readers[i]
        start == r.pos - Len(r.current_line)
    IN /\ r.current_line # <<>>
       /\ start = 0 \/ output[i].data[start] = NL
       /\ r.current_line[Len(r.current_line)] = NL

\* C19: in the adjacency merge every stream's current record is a whole line
\* of its reducer's output, however long, and every line of OUT1 is a whole
\* line that a reducer wrote: no part of a line is taken for a record and
\* nothing is emitted between the parts of a line.
C19_RecordsEmittedWhole ==
    (prog = "findsp" /\ pc = "merge_loop") =>
        /\ \A i \in LiveStreams : HoldsWholeRecord(i)
        /\ TextLines(OUT1.data, 1) \subseteq ReducerRecords

\* C20: at every iteration of the adjacency merge loop no two non-exhausted
\* streams have the same current dest.
C20_NoTie ==
    (prog = "findsp" /\ pc = "merge_loop") =>
        \A i \in LiveStreams : \A j \in LiveStreams :
            i # j => readers[i].dest # readers[j].dest

\* the pairs that reduce unit k accumulates, in arrival order
Accumulated(k) == read_spools(Base, Base + M - 1, k)

AccumulatedSet(k) == { Accumulated(k)[n] : n \in 1..Len(Accumulated(k)) }

GroupDests(k) == { p[1] : p \in AccumulatedSet(k) }

GroupSources(k, d) == { p[2] : p \in { x \in AccumulatedSet(k) : x[1] = d } }

\* one line per dest of dests, with all the sources of the dest, ascending
RECURSIVE GroupLines(_, _)
GroupLines(k, dests) ==
    IF dests = <<>> THEN <<>>
    ELSE (IF prog = "findsp"
          THEN sp_adj_line(Head(dests), Ascending(GroupSources(k, Head(dests))))
          ELSE st_adj_line(Head(dests), Ascending(GroupSources(k, Head(dests)))))
         \o GroupLines(k, Tail(dests))

\* reduce unit k has ended normally and its files are still there
ReduceDone(k) ==
    /\ Terminated(reducers[k]) /\ reducers[k].code = "exit0"
    /\ output[k].exists

\* C21: the output file of a reduce unit that has finished holds one line per
\* distinct dest of the pairs it accumulated, in ascending dest order, and the
\* line of a dest has every source of that dest once, in ascending order.
C21_GroupingExact ==
    \A k \in RedIds :
        ReduceDone(k) => output[k].data = GroupLines(k, Ascending(GroupDests(k)))

\* a reduce unit that accumulated the same pair twice has finished
C21_Witness ==
    \E k \in RedIds :
        /\ ReduceDone(k)
        /\ Len(Accumulated(k)) > Cardinality(AccumulatedSet(k))
        /\ output[k].data # <<>>

\* C22: when a reduce unit has finished, its slice holds one entry per line of
\* its output file, in the same ascending dest order, each with the number of
\* sources of the line.
C22_SliceMatchesOutput ==
    \A k \in RedIds :
        ReduceDone(k) =>
            /\ SliceEntries(k) = dest_counts(reducers[k].pairs, 1)
            /\ FirstOf(SliceEntries(k)) = line_dests(output[k].data, 1)

\* reduce unit k has read its spools and found no pair
EmptyPartition(k) ==
    /\ reducers[k].st \in {"group", "zombie", "reaped", "done", "joined"}
    /\ reducers[k].code \in {"none", "exit0"}
    /\ reducers[k].pairs = <<>>

\* C23: a reduce unit that receives no pairs leaves an empty output file and
\* an empty slice; the merger takes its stream for exhausted from the start,
\* and a run whose reduce units all received nothing and ended normally is
\* not killed while the merger reads the slices.
C23_EmptyPartitionIsFine ==
    /\ \A k \in RedIds :
          (EmptyPartition(k) /\ output[k].exists) =>
              /\ output[k] = EmptyFile
              /\ SliceEntries(k) = <<>>
              /\ (prog = "findsp" /\ pc = "merge_loop") => readers[k].eof
    /\ (/\ prog = "findsp" /\ pc = "exit" /\ OUT1.exists
        /\ AllUnitsOk
        /\ \A k \in RedIds : EmptyPartition(k))
           => exit_status # "signal"

\* map unit i is in its read loop with a record left to read
Reading(i) == mappers[i].st = "loop" /\ mappers[i].pos < Len(split[i].data)

\* the record that map unit i reads next, and whether the unit accepts it
NextRecord(i) == SegmentRecords(i)[mappers[i].pos + 1]

Accepts(i) ==
    /\ NextRecord(i).ok
    /\ prog = "findst" => st_filter(NextRecord(i).d, MIND, MAXD)

\* a step of map unit i changes no spool of another map unit
MapFrame ==
    \A i \in MapIds :
        (mappers[i].st \in {"open", "loop"} /\ mappers'[i] # mappers[i]) =>
            \A ik \in DOMAIN inter : ik[1] # i => inter'[ik] = inter[ik]

\* the step of map unit i on a record it accepts appends (dest, source) to
\* the spool of partition dest mod R and changes no other spool
MapAppend ==
    \A i \in MapIds :
        (Reading(i) /\ Accepts(i) /\ mappers'[i] # mappers[i]) =>
            inter' = [inter EXCEPT ![<<i, Base + (NextRecord(i).d % R)>>] =
                         Append1(@, <<NextRecord(i).d, NextRecord(i).s>>)]

\* no step kills the run when every map unit that is reading has a record
\* it accepts
MapSurvives ==
    (exit_status = "running" /\ exit_status' = "signal") =>
        ~ (\E i \in MapIds : Reading(i)) \/ (\E i \in MapIds : Reading(i) /\ ~ Accepts(i))

\* C24: a map unit writes only to its own spools, and each record it accepts
\* is appended, as (dest, source), to the spool (i, dest mod R) and to no
\* other.
C24_MapWritesOwnSpool == [][MapFrame /\ MapAppend /\ MapSurvives]_vars

\* reduce unit k has been through its read phase
ReadPhaseDone(k) ==
    \/ reducers[k].st = "group"
    \/ Terminated(reducers[k]) /\ reducers[k].code = "exit0"

\* how often the pair e is in the spools of partition k
PartitionCount(k, e) ==
    Cardinality({ x \in SpoolSlots : x[1][2] = k /\ inter[x[1]].data[x[2]] = e })

PairsOfUnit(k) == { reducers[k].pairs[n] : n \in 1..Len(reducers[k].pairs) }

MetadataIntact ==
    prog = "findsp" =>
        /\ (\E k \in RedIds : Started(reducers[k])) =>
              /\ r_field = R
              /\ offsets = initialize_shm_layout(R, U64Shl1(SHMSIZE))
        /\ \A a \in DOMAIN shm_mem : a >= header_size(R)

\* the header changes in one step only: at step 5, on a zeroed region, with
\* no reduce unit forked
MetadataWrittenOnce ==
    /\ offsets # <<>> => (offsets' = offsets /\ r_field' = r_field)
    /\ (offsets' # offsets \/ r_field' # r_field) =>
          /\ prog = "findsp" /\ pc = "create_shm"
          /\ \A k \in RedIds : ~ Started(reducers[k])
          /\ DOMAIN shm_mem' = {}

\* C26: the R field and the slice offsets of the shared region are written
\* once, on the zeroed region and before any reduce unit is forked, and no
\* later step of a reduce unit or of the merger changes them.
C26_MetadataWriteOnce == [] MetadataIntact /\ [][MetadataWrittenOnce]_vars

\* the merger is about to read a region into which reduce units have stored
C26_Witness ==
    /\ prog = "findsp" /\ pc = "process_shm"
    /\ offsets # <<>>
    /\ R = MaxR
    /\ \A k \in RedIds : reducers[k].written > 0

\* the byte at address a of the region contents mem
ByteOf(mem, a) == IF a \in DOMAIN mem THEN mem[a] ELSE NUL

\* address a lies in the slice of reduce unit k
InSliceOf(k, a) ==
    U64Less(U64Sub(U64(a), offsets[k + 1]), U64Sub(offsets[k + 2], offsets[k + 1]))

\* reduce unit k takes the step and was running before it
StepOfRunning(k) ==
    /\ reducers[k].st \in {"read", "group"}
    /\ reducers'[k] # reducers[k]

\* findsp: a byte of the region changes only in a step of the running reduce
\* unit whose slice holds it
SpSliceFrame ==
    \A a \in DOMAIN shm_mem \cup DOMAIN shm_mem' :
        ByteOf(shm_mem', a) # ByteOf(shm_mem, a) =>
            \E k \in RedIds : StepOfRunning(k) /\ InSliceOf(k, a)

\* findst: an entry or the count of slice k changes only in a step of the
\* running reduce unit k, or when main sets the area up
StSliceFrame ==
    \/ UNCHANGED heap
    \/ pc = "alloc_results"
    \/ /\ DOMAIN all_reducer_results \subseteq DOMAIN all_reducer_results'
       /\ \A x \in DOMAIN all_reducer_results' :
             (x \notin DOMAIN all_reducer_results
                \/ all_reducer_results'[x] # all_reducer_results[x]) =>
                 \E k \in RedIds :
                     /\ StepOfRunning(k)
                     /\ x >= (k - 1) * results_capacity_per_reducer
                     /\ x < k * results_capacity_per_reducer
       /\ \A k \in RedIds :
             actual_results_counts'[k - 1] # actual_results_counts[k - 1]
                 => StepOfRunning(k)

SliceFrame ==
    /\ prog = "findsp" => SpSliceFrame
    /\ prog = "findst" => StSliceFrame

\* the merger reads the slices only when every reduce unit has terminated
MergerReadsLate ==
    pc \in {"process_shm", "finalize"} => \A k \in RedIds : Terminated(reducers[k])

\* C27: a slice is written only by its own reduce unit while that unit runs,
\* it does not change once the unit has terminated, and the merger, which
\* changes no slice, reads them only after every reduce unit has terminated.
C27_SlicesWriteOnce == [] MergerReadsLate /\ [][SliceFrame]_vars

\* one reduce unit has terminated with entries in its slice while another,
\* with entries in its own, is still running
C27_Witness ==
    \E k \in RedIds : \E j \in RedIds :
        /\ Terminated(reducers[k]) /\ SliceEntries(k) # <<>>
        /\ reducers[j].st = "group" /\ SliceEntries(j) # <<>>

\* every child of the stage that was forked has been waited for, once
AllReaped(u) ==
    \A x \in DOMAIN u : Started(u[x]) => (u[x].st = "reaped" /\ u[x].waited = 1)

\* C28: in findsp no child is waited for twice, every forked mapper has been
\* waited for once when the orchestrator is past the map stage or has left,
\* and every forked reducer when it is past the reduce stage or has left.
C28_ChildrenReaped ==
    prog = "findsp" =>
        /\ \A i \in MapIds : mappers[i].waited <= 1
        /\ \A k \in RedIds : reducers[k].waited <= 1
        /\ pc \notin {"validate", "split", "fork_mappers", "fork_mappers_failed",
                      "wait_mappers"} => AllReaped(mappers)
        /\ pc \in {"merge", "merge_loop", "process_shm", "exit"} => AllReaped(reducers)

\* the orchestrator has left after a fork failed, with an earlier child
\* waited for and a later one never forked
C28_Witness ==
    /\ prog = "findsp" /\ pc = "exit" /\ exit_status = "failure"
    /\ \E k \in RedIds : \E j \in RedIds :
          reducers[k].st = "reaped" /\ reducers[j].st = "unborn"

\* what a map unit that reads the records recs, one after the other, appends
\* to its spool of partition k
RECURSIVE MapEmits(_, _)
MapEmits(recs, k) ==
    IF recs = <<>> THEN <<>>
    ELSE LET l == Head(recs)
         IN IF ~ l.ok THEN <<>>
            ELSE IF prog = "findst" /\ ~ st_filter(l.d, MIND, MAXD)
                 THEN MapEmits(Tail(recs), k)
            ELSE IF prog = "findst" /\ CRem(l.d, R) + 1 < 1 THEN <<>>
            ELSE (IF Base + (l.d % R) = k THEN << <<l.d, l.s>> >> ELSE <<>>)
                 \o MapEmits(Tail(recs), k)

\* the text a findsp reduce unit with these entries leaves in a slice of
\* max bytes: the lines that still fit, one after the other
RECURSIVE StoredLines(_, _, _)
StoredLines(entries, written, max) ==
    IF entries = <<>> THEN <<>>
    ELSE LET line == FormatU(Head(entries)[1]) \o <<SP>>
                     \o FormatU(Head(entries)[2]) \o <<NL>>
         IN IF U64Leq(U64Add(U64(written), U64(Len(line))), max)
            THEN line \o StoredLines(Tail(entries), written + Len(line), max)
            ELSE StoredLines(Tail(entries), written, max)

\* the spools of a map unit depend on its segment alone
SpoolsDetermined ==
    \A i \in MapIds :
        (/\ split[i].exists
         /\ mappers[i].st = "loop" \/ (Terminated(mappers[i]) /\ mappers[i].code = "exit0"))
            => \A k \in RedIds :
                   inter[<<i, k>>].data =
                       MapEmits(SubSeq(SegmentRecords(i), 1, mappers[i].pos), k)

\* when the run has ended, the spools that are left are the whole spools
SpoolsComplete ==
    (pc = "exit" /\ exit_status # "failure")
        => \A i \in MapIds :
               (split[i].exists /\ mappers[i].code \in {"none", "exit0"})
                   => \A k \in RedIds :
                          inter[<<i, k>>] = File(MapEmits(SegmentRecords(i), k))

\* the output file and the slice of a reduce unit depend on its spools alone
ReducersDetermined ==
    \A k \in RedIds :
        ReduceDone(k) =>
            /\ output[k].data = GroupLines(k, Ascending(GroupDests(k)))
            /\ IF prog = "findsp"
               THEN region_text(k - Base) =
                        StoredLines(dest_counts(reducers[k].pairs, 1), 0, my_size(k))
               ELSE SliceEntries(k) = dest_counts(reducers[k].pairs, 1)

\* two runs whose units all ended normally end with the same final files
FinalsDetermined ==
    (prev.ran /\ prev.units_ok /\ AllUnitsOk /\ Succeeded)
        => (OUT1 = prev.OUT1 /\ OUT2 = prev.OUT2)

\* C29: whatever the interleaving and the completion order of the map units
\* and of the reduce units, every spool, every reducer output file, every
\* slice and both final files have the contents that the input and the
\* parameters determine.
C29_PeersCommute ==
    SpoolsDetermined /\ SpoolsComplete /\ ReducersDetermined /\ FinalsDetermined

\* a unit that was started and has not ended, in a process that is alive
Running(unit) == Started(unit) /\ ~ Terminated(unit) /\ pc # "exit"

\* a running unit can take its next step whatever the other units do
UnitsNeverWait ==
    /\ \A i \in MapIds : Running(mappers[i]) => ENABLED MapStep(i)
    /\ \A k \in RedIds : Running(reducers[k]) => ENABLED ReduceStep(k)

\* C30: under fair scheduling every run reaches its final state, with
\* success or with failure; a running map or reduce unit is never blocked
\* by another unit, so the waits of main return and the merge loop ends.
C30_Termination == [] UnitsNeverWait /\ <>(pc = "exit")

\* a successful findsp run with the most units, after main waited for all
\* of them and the merge loop wrote more than one line
C30_Witness ==
    /\ prog = "findsp" /\ pc = "exit" /\ Succeeded
    /\ M = MaxM /\ R = MaxR
    /\ AllReaped(mappers) /\ AllReaped(reducers)
    /\ \A k \in RedIds : reducers[k].pairs # <<>>
    /\ Cardinality(TextLines(OUT1.data, 1)) > 1

\* the layout that initialize_shm_layout wrote keeps every slice between the
\* header and the end of the mapped object
LayoutInBounds ==
    /\ U64Leq(U64(header_size(R)), shm_size)
    /\ offsets[1] = U64(header_size(R))
    /\ \A i \in 1..R : U64Leq(offsets[i], offsets[i + 1])
    /\ U64Leq(offsets[R + 1], shm_size)

\* C31: for every accepted SHMSIZE and every R, the offsets written by
\* initialize_shm_layout satisfy header_size = offsets[0] <= offsets[1] <=
\* ... <= offsets[R] <= total_size, with header_size <= total_size.
C31_LayoutBounds == (prog = "findsp" /\ offsets # <<>>) => LayoutInBounds

\* the number of lines of the text t
LineCount(t) == Cardinality({ q \in 1..Len(t) : t[q] = NL })

RECURSIVE OutputLineCount(_)
OutputLineCount(ks) ==
    IF ks = {} THEN 0
    ELSE LET k == CHOOSE x \in ks : TRUE
         IN LineCount(output[k].data) + OutputLineCount(ks \ {k})

\* C32: when the merge loop of findsp has ended, OUT1 has as many lines as
\* output-0 .. output-(R-1) together, for every dest the splitter accepts,
\* dest = INT_MAX included.
C32_MergeEmitsAll ==
    (prog = "findsp" /\ pc = "process_shm")
        => LineCount(OUT1.data) = OutputLineCount(RedIds)

\* the numbers that follow position from in a line
CountNumbers(line, from) ==
    Cardinality({ q \in (from + 1)..Len(line) :
                    IsDigit(line[q]) /\ ~ IsDigit(line[q - 1]) })

\* <<dest, number of sources>> of an adjacency line "dest: s1 s2 ...\n"
AdjEntry(line) ==
    LET colons == { q \in 1..Len(line) : line[q] = COLON }
        colon == IF colons = {} THEN Len(line)
                 ELSE CHOOSE q \in colons : \A x \in colons : q <= x
    IN << parse_destination(line), CountNumbers(line, colon) >>

\* what the two final files say
AdjEntries == { AdjEntry(l) : l \in TextLines(OUT1.data, 1) }
CountEntries ==
    LET es == parse_region(OUT2.data, 1) IN { es[n] : n \in 1..Len(es) }

\* C33: after a successful run OUT1 and OUT2 name the same dests, and the
\* count of a dest in OUT2 is the number of sources on its line in OUT1.
C33_OutputsAgree ==
    Succeeded =>
        /\ { a[1] : a \in AdjEntries } = { c[1] : c \in CountEntries }
        /\ \A a \in AdjEntries : \A c \in CountEntries : a[1] = c[1] => a[2] = c[2]

\* the entries of a findsp reduce unit that write_to_shared_memory stored in
\* a slice of max bytes: those whose line still fitted
RECURSIVE StoredEntries(_, _, _)
StoredEntries(entries, written, max) ==
    IF entries = <<>> THEN <<>>
    ELSE LET len == Len(FormatU(Head(entries)[1])) + 1
                    + Len(FormatU(Head(entries)[2])) + 1
         IN IF U64Leq(U64Add(U64(written), U64(len)), max)
            THEN << Head(entries) >> \o StoredEntries(Tail(entries), written + len, max)
            ELSE StoredEntries(Tail(entries), written, max)

\* the slice of reduce unit k is full to its last byte
SliceFull(k) == U64(reducers[k].written) = U64Sub(offsets[k + 2], offsets[k + 1])

\* C34: in findsp the entries parsed out of the slice of a reduce unit that
\* has ended are, in order, the entries the unit stored, also when the text
\* fills the slice to its last byte; no byte of a neighbouring slice is
\* parsed with them.
C34_SliceRoundTrip ==
    prog = "findsp" =>
        \A k \in RedIds :
            ReduceDone(k) =>
                parse_region(region_text(k), 1) =
                    StoredEntries(dest_counts(reducers[k].pairs, 1), 0,
                                  U64Sub(offsets[k + 2], offsets[k + 1]))

\* slice 0 is full to its last byte, slice 1 holds an entry, and both units
\* have ended
C34_Witness ==
    /\ prog = "findsp" /\ R = MaxR
    /\ \A k \in RedIds : ReduceDone(k)
    /\ SliceFull(0) /\ Len(parse_region(region_text(0), 1)) = 2
    /\ parse_region(region_text(1), 1) # <<>>

\* the spool index that map unit i computes for the record it reads next
SpoolIndex(i) ==
    IF prog = "findsp" THEN CRem(NextRecord(i).d, R)
    ELSE CRem(NextRecord(i).d, R) + 1

\* C35: for every record a map unit accepts, the spool index it computes is
\* one of the R spools it opened (findsp: 0..R-1, findst: 1..R), whatever
\* the input, negative dests included.
C35_IndexInRange ==
    \A i \in MapIds :
        (Reading(i) /\ Accepts(i) /\ pc # "exit") => SpoolIndex(i) \in RedIds

\* no pair that a findsp reduce unit holds has the sentinel as its source
NoSentinelSource ==
    \A k \in RedIds : \A n \in 1..Len(reducers[k].pairs) :
        reducers[k].pairs[n][2] # UINT32_MAX

\* every adjacency line and every stored entry of a findsp reduce unit has a
\* source
EveryGroupHasSource ==
    \A k \in RedIds :
        /\ \A l \in TextLines(output[k].data, 1) : AdjEntry(l)[2] >= 1
        /\ offsets # <<>> =>
               LET es == parse_region(region_text(k), 1)
               IN \A n \in 1..Len(es) : es[n][2] >= 1

\* C36: no source that gets through split_input_file and mapper_process to a
\* findsp reduce unit equals the dedup sentinel UINT32_MAX, so every
\* adjacency line and every DestCount entry of the unit has at least one
\* source.
C36_AtLeastOneSource ==
    prog = "findsp" => (NoSentinelSource /\ EveryGroupHasSource)

\* the input has a line whose source is the int with the bits of UINT32_MAX,
\* and a findsp reduce unit has ended with a line for the source INT_MAX
C36_Witness ==
    /\ prog = "findsp"
    /\ \E n \in 1..Len(infile) : infile[n].s = UINT32_MAX
    /\ \E k \in RedIds :
          /\ ReduceDone(k)
          /\ \E n \in 1..Len(reducers[k].pairs) : reducers[k].pairs[n][2] = INT_MAX
          /\ output[k].data # <<>>
          /\ parse_region(region_text(k), 1) # <<>>

\* the readers that have not reached the end of their file and hold a record
HoldingRecord == { i \in 0..(R - 1) : ~ readers[i].eof /\ readers[i].dest >= 0 }

\* the search of the merge loop finds no reader although the counter is not 0
NoSelectableReader ==
    active_readers > 0 /\ find_min(readers, 0, R, 0 - 1, INT_MAX) < 0

\* C37: at the start of every iteration of the merge loop active_readers is
\* the number of readers that hold a record, and the branch min_idx < 0 is
\* never taken.
C37_ActiveReaders ==
    (prog = "findsp" /\ pc = "merge_loop")
        => (active_readers = Cardinality(HoldingRecord) /\ ~ NoSelectableReader)

====
